---------------------------- MODULE Spec2Model ----------------------------
(***************************************************************************)
(* Model of the agent runtime of vecbase-labs/myagent:                     *)
(*   - AgentThread (src/thread.rs): the bounded submission queue (SQ),     *)
(*     submit, and the spawned agent task;                                 *)
(*   - AiAgent::run and ai_loop (src/agent/ai.rs): the outer submission    *)
(*     loop, the stream drain, the tool dispatch under a per-turn RwLock   *)
(*     and the collection of the tool results;                             *)
(*   - parse_sse_event (src/ai/client.rs): the SSE-to-StreamEvent mapping. *)
(*   - the chat transport (src/transport/feishu): the reconnecting        *)
(*     WebSocket event loop with its multi-part cache, and the CardKit     *)
(*     calls with their sequence numbers and token refresh;                *)
(*   - the chat front-end (src/frontend/feishu.rs): the main loop, the     *)
(*     listener, the per-thread pollers and the card-creation tasks;       *)
(*   - the patch tool (src/tools/apply_patch.rs): seek_sequence, the       *)
(*     replacements of an update and the loop over the hunks.              *)
(* Strings that the code only copies are abstracted to tokens: a user text *)
(* is the number of the submission, a text is the sequence of its deltas.  *)
(* The lines of files and patches are sequences of characters.             *)
(***************************************************************************)
EXTENDS Naturals, Sequences, FiniteSets

\* ------------------------------------------------------------------ bounds
\* Submissions made on the thread in one run.
MaxSubs == 2
\* SSE events the LLM endpoint sends in one run (all responses together).
MaxWire == 4
\* SSE events of one run in which the endpoint only calls tools.
MaxToolWire == 5
\* LLM requests answered in one run.
MaxRequests == 2
\* thread.rs:9 has SQ_CAPACITY = 64; the model scales the queue down so that
\* a full queue is reached within MaxSubs submissions.
SQ_CAPACITY == 1
\* Frames the chat backend sends on the WebSocket in one run.
MaxFrames == 3
\* WebSocket connections established in one run.
MaxConnects == 2
\* feishu.rs:210 gives the transport bridge 512 slots; the model scales the
\* channel down so that a full bridge is reached within MaxFrames frames.
BRIDGE_CAPACITY == 1
\* feishu.rs:69 gives the front-end channel 512 slots and thread.rs:10 the
\* EQ 512 slots; scaled down likewise.
FE_CAPACITY == 1
EQ_CAPACITY == 1
\* Threads the chat users start in one run.
MaxThreads == 2
\* API calls started in one run, and expiries of the backend's token.
MaxApiCalls == 2
MaxExpiries == 1
\* Lines of the file and of the pattern in a seek_sequence call.
MaxSeekLines == 3
MaxPattern == 2
\* Hunks of one patch.
MaxHunks == 2

\* ------------------------------------------------------------ protocol.rs
None == [type |-> "None"]

Text(t) == [type |-> "text", text |-> t]

ToolUse(id, name, input) ==
    [type |-> "tool_use", id |-> id, name |-> name, input |-> input]

\* tool_result_block: is_error is Some(true) or absent (here FALSE).
tool_result_block(tool_use_id, output, is_error) ==
    [type |-> "tool_result", tool_use_id |-> tool_use_id,
     content |-> output, is_error |-> is_error]

user_message(text) == [role |-> "user", content |-> <<Text(<<text>>)>>]

user_message_with_tool_results(results) ==
    [role |-> "user", content |-> results]

assistant_message(content) == [role |-> "assistant", content |-> content]

StatusChange(s) == [type |-> "StatusChange", status |-> s]

ErrorEvent(m) == [type |-> "Error", msg |-> m]

\* Submission kinds; UserMessage and FollowUp carry a text.
SubmissionKinds == {"UserMessage", "FollowUp", "Cancel", "Shutdown"}

\* --------------------------------------------------------------- tools/mod.rs
ToolNames == {"shell", "apply_patch"}

supports_parallel(name) ==
    name \in {"shell", "read_file", "list_dir", "grep_files"}

\* execute_tool: every known tool first reads a required string argument and
\* returns Err when it is missing; with the argument present the tool itself
\* runs and returns Ok or Err.  shell::truncate_output slices the output at a
\* fixed byte offset (shell.rs:188), which panics inside a multi-byte
\* character, so a shell executor may also panic.
execute_tool_outcomes(name, input) ==
    IF input = "{}" THEN {"err"}
    ELSE IF name = "shell" THEN {"ok", "err", "panic"}
    ELSE {"ok", "err"}

\* ------------------------------------------------------------- ai/client.rs
\* The SSE events the endpoint can send (event type, block or delta type,
\* argument).  "thinking" stands for any content block type other than text
\* and tool_use, "ping" for the event types the parser drops.
WireEvents ==
    {[event |-> "content_block_start", kind |-> "text", arg |-> ""]}
    \cup {[event |-> "content_block_start", kind |-> "tool_use", arg |-> n] :
            n \in ToolNames}
    \cup {[event |-> "content_block_start", kind |-> "thinking", arg |-> ""]}
    \cup {[event |-> "content_block_delta", kind |-> k, arg |-> ""] :
            k \in {"text_delta", "input_json_delta"}}
    \cup {[event |-> "content_block_stop", kind |-> "", arg |-> ""]}
    \cup {[event |-> "message_delta", kind |-> "", arg |-> s] :
            s \in {"tool_use", "end_turn"}}
    \cup {[event |-> "message_stop", kind |-> "", arg |-> ""]}
    \cup {[event |-> "ping", kind |-> "", arg |-> ""]}
    \cup {[event |-> e, kind |-> k, arg |-> ""] :
            e \in {"content_block_delta", "message_stop"},
            k \in {"bad_json", "no_index"}}

\* A malformed event: its data line is not a JSON text (client.rs:113), or
\* the JSON lacks a field the event type requires (client.rs:117, 126, 145).
\* message_stop requires no field.
Malformed(w) ==
    \/ w.kind = "bad_json"
    \/ w.kind = "no_index" /\ w.event # "message_stop"

\* parse_content_block: text and tool_use blocks only; the id of a tool_use
\* block is the one the endpoint assigned.
parse_content_block(w, id) ==
    CASE w.kind = "text" -> Text(<<>>)
      [] w.kind = "tool_use" -> ToolUse(id, w.arg, "{}")
      [] OTHER -> None

\* parse_sse_event: an SSE event block to a StreamEvent, or None (dropped).
parse_sse_event(w, id) ==
    IF Malformed(w) THEN None
    ELSE
    CASE w.event = "content_block_start" ->
            IF parse_content_block(w, id) = None THEN None
            ELSE [type |-> "ContentBlockStart",
                  content_block |-> parse_content_block(w, id)]
      [] w.event = "content_block_delta" ->
            CASE w.kind = "text_delta" -> [type |-> "TextDelta", text |-> "x"]
              [] w.kind = "input_json_delta" ->
                    [type |-> "InputJsonDelta", partial_json |-> "args"]
              [] OTHER -> None
      [] w.event = "content_block_stop" -> [type |-> "ContentBlockStop"]
      [] w.event = "message_delta" ->
            [type |-> "MessageDelta", stop_reason |-> w.arg]
      [] w.event = "message_stop" -> [type |-> "MessageStop"]
      [] OTHER -> None

STOP_REASON_TOOL_USE == "tool_use"

\* ------------------------------------------------------------------ state
VARIABLES
    sq,                 \* thread.rs: buffered submissions of the SQ channel
    sq_closed,          \* thread.rs: every AgentThread handle (tx_sub) dropped
    blocked,            \* thread.rs: the submission of a submit() waiting for a slot
    calls,              \* the submit() calls that returned, with their results
    subs_left,          \* submissions the front-end may still make
    pc,                 \* ai.rs: position of the agent task
    sub,                \* ai.rs:77 the submission last received
    consumed,           \* the submissions received so far, in order
    messages,           \* ai.rs:65 the message history
    last_request,       \* ai.rs:132 messages carried by the latest LLM request
    assistant_content,  \* ai.rs:139
    current_text,       \* ai.rs:140
    current_tool_json,  \* ai.rs:141
    current_tool_block, \* ai.rs:142
    stop_reason,        \* ai.rs:143
    block_index,        \* ai.rs:144
    tool_uses,          \* ai.rs:258
    executors,          \* ai.rs:279 handles: the spawned executor tasks
    finish_order,       \* the order in which the executor tasks finished
    loop_result,        \* ai.rs:83 what the last ai_loop call returned
    eq,                 \* every event sent on the EQ, in emission order
    sub_start,          \* Len(eq) when the current submission was received
    turn_start,         \* Len(eq) when the current LLM request was issued
    dispatched,         \* positions in messages of the assistant messages whose tools were dispatched
    wire_left,          \* SSE events the endpoint may still send
    requests_left,      \* LLM requests that may still be answered
    next_tool_id,       \* the id the endpoint gives to its next tool_use block
    turn_faults         \* what went wrong on the LLM stream since the submission was received

agentVars == <<sq, sq_closed, blocked, calls, subs_left, pc, sub, consumed,
               messages, last_request, assistant_content, current_text, current_tool_json,
          current_tool_block, stop_reason, block_index, tool_uses, executors,
          finish_order, loop_result, eq, sub_start, turn_start, dispatched,
          wire_left, requests_left, next_tool_id, turn_faults>>

frontVars == <<sq_closed, blocked, calls, subs_left>>
drainVars == <<assistant_content, current_text, current_tool_json,
               current_tool_block, stop_reason, block_index>>
toolVars == <<tool_uses, executors, finish_order>>
envVars == <<wire_left, requests_left, next_tool_id, turn_faults>>

\* transport/feishu/event.rs: the WebSocket event loop.
VARIABLES
    ws_pc,              \* event.rs:55-65 position of start_event_loop
    ws_epoch,           \* connections established so far
    msg_cache,          \* event.rs:119 the multi-part cache of the connection
    ws_recv,            \* every frame handled by handle_frame, in order
    ws_sent,            \* every response frame written to the socket, in order
    ws_merges,          \* every merge_parts call: arguments, cache before, result
    ws_evictions,       \* cache entries evicted so far (event.rs:169)
    bridge,             \* feishu.rs:209 buffered events of the transport bridge
    ws_frames_left      \* frames the server may still send

wsVars == <<ws_pc, ws_epoch, msg_cache, ws_recv, ws_sent, ws_merges,
            ws_evictions, bridge, ws_frames_left>>

\* frontend/feishu.rs: the chat-channel front-end.
VARIABLES
    fe,                 \* feishu.rs:69 buffered events of the front-end channel
    threads,            \* thread_manager.rs:14 the number of threads registered
    sqs,                \* thread.rs:25 per thread: the buffered submissions
    eqs,                \* thread.rs:26 per thread: the buffered agent events
    agents,             \* per thread: the events its agent has yet to emit in this turn
    pollers,            \* feishu.rs:244-250 per thread: the event its poller is sending
    main_blocked,       \* feishu.rs:147 the submit the main loop waits in, or None
    render_states,      \* feishu.rs:74
    card_to_thread,     \* feishu.rs:75
    card_tasks,         \* feishu.rs:124, 312 the card-creation tasks under way
    card_owner,         \* per card created: its thread and turn, and the connection then
    fe_turns,           \* per thread: StatusChange(Working) events handled
    turns_done,         \* per thread: how each turn handled to its end ended
    card_spawned,       \* the (thread, turn) pairs a card creation was spawned for
    card_closed,        \* the cards transport.finish_card was called on
    card_writes,        \* the (card, turn) pairs of the card contents written
    expired_replies,    \* feishu.rs:155 the messages answered "session expired"
    news_handled        \* NewMessage events handled

feVars == <<fe, threads, sqs, eqs, agents, pollers, main_blocked,
            render_states, card_to_thread, card_tasks, card_owner, fe_turns,
            turns_done, card_spawned, card_closed, card_writes, expired_replies,
            news_handled>>

\* The state of the front-end but its channel.
mainVars == <<threads, sqs, eqs, agents, pollers, main_blocked,
              render_states, card_to_thread, card_tasks, card_owner,
              fe_turns, turns_done, card_spawned, card_closed, card_writes,
              expired_replies, news_handled>>

\* transport/feishu/api.rs: the client of the chat backend.
VARIABLES
    tenant_token,       \* api.rs:22 the cached tenant token, NoToken for None
    server_token,       \* the token the backend accepts at present
    seq_counter,        \* api.rs:23
    api_pc,             \* per calling task: the position of its API call
    api_sent,           \* every request sent to the backend, in order
    api_calls,          \* the API calls that returned, with their results
    api_calls_left,     \* API calls that may still be started
    expiries_left       \* times the backend may still expire its token

apiVars == <<tenant_token, server_token, seq_counter, api_pc, api_sent,
             api_calls, api_calls_left, expiries_left>>

\* tools/apply_patch.rs: the patch tool and the files it works on.
VARIABLES
    fs,                 \* the files of the work directory: path -> content
    todo,               \* the patches the tool has yet to be called with
    patch_pc,           \* "idle", or "apply" inside apply_hunks
    hunks,              \* apply_patch.rs:25 the hunks of the call
    hunk_no,            \* apply_patch.rs:156 hunks of the call applied so far
    fs_trail,           \* the files when the call began and after each of its hunks
    patch_log,          \* every call that returned: hunks, files, result
    seek_call,          \* the arguments and the result of a seek_sequence call
    patch_input         \* apply_patch.rs:24 the lines of the input of the call, when it is given as text

patchVars == <<fs, todo, patch_pc, hunks, hunk_no, fs_trail, patch_log,
               seek_call, patch_input>>

otherVars == <<wsVars, feVars, apiVars, patchVars>>

vars == <<agentVars, otherVars>>

InitWith(subs, wire, reqs) ==
    /\ sq = <<>>
    /\ sq_closed = FALSE
    /\ blocked = None
    /\ calls = <<>>
    /\ subs_left = subs
    /\ pc = "recv"
    /\ sub = None
    /\ consumed = <<>>
    /\ messages = <<>>
    /\ last_request = <<>>
    /\ assistant_content = <<>>
    /\ current_text = <<>>
    /\ current_tool_json = <<>>
    /\ current_tool_block = None
    /\ stop_reason = "null"
    /\ block_index = 0
    /\ tool_uses = <<>>
    /\ executors = <<>>
    /\ finish_order = <<>>
    /\ loop_result = "none"
    /\ eq = <<>>
    /\ sub_start = 0
    /\ turn_start = 0
    /\ dispatched = {}
    /\ wire_left = wire
    /\ requests_left = reqs
    /\ next_tool_id = 1
    /\ turn_faults = {}

\* event.rs:119 HashMap::new(): no message id has an entry.
MessageIds == {"m"}

EmptyCache == [m \in MessageIds |-> None]

WsInit(frames) ==
    /\ ws_pc = "discover"
    /\ ws_epoch = 0
    /\ msg_cache = EmptyCache
    /\ ws_recv = <<>>
    /\ ws_sent = <<>>
    /\ ws_merges = <<>>
    /\ ws_evictions = {}
    /\ bridge = <<>>
    /\ ws_frames_left = frames

\* The threads of a run are numbered in the order of their creation
\* (ThreadId::new() gives each a fresh id); 0 stands for "no thread".
ThreadIds == 1..MaxThreads
NoThread == 0
\* The message ids a reply can name as its parent: those of the cards of
\* the run and one of a card of an earlier run of the process.
CardRefs == {"om_1", "om_2", "om_x"}
\* mod.rs:91-104: the backend numbers the cards it creates and gives the
\* card message of card c the id CardMsgIds[c]; 0 stands for "no card".
CardMsgIds == <<"om_1", "om_2">>
MaxCards == Len(CardMsgIds)
NoCard == 0

\* feishu.rs:109-117: the render state of a new thread.  The text buffer
\* is the sequence of the pieces pushed on it.
NewRenderState ==
    [card_msg_id |-> "", card_id |-> NoCard, text_buffer |-> <<>>,
     streaming_closed |-> FALSE]

\* The events of one turn of an agent, from StatusChange(Working) to the
\* end of the turn (ai.rs:82-93, claude.rs:47-60): a turn that answers
\* with a text and a turn that fails.
TextDelta == [type |-> "TextDelta", text |-> "x"]
ContentBlockStop == [type |-> "ContentBlockStop"]

AgentTurns ==
    {<<StatusChange("Working"), TextDelta, ContentBlockStop,
       StatusChange("Completed")>>,
     <<StatusChange("Working"), ErrorEvent("err")>>}

FeInit ==
    /\ fe = <<>>
    /\ threads = 0
    /\ sqs = [t \in ThreadIds |-> <<>>]
    /\ eqs = [t \in ThreadIds |-> <<>>]
    /\ agents = [t \in ThreadIds |-> <<>>]
    /\ pollers = [t \in ThreadIds |-> None]
    /\ main_blocked = None
    /\ render_states = [t \in ThreadIds |-> None]
    /\ card_to_thread = [c \in CardRefs |-> NoThread]
    /\ card_tasks = {}
    /\ card_owner = <<>>
    /\ fe_turns = [t \in ThreadIds |-> 0]
    /\ turns_done = [t \in ThreadIds |-> <<>>]
    /\ card_spawned = {}
    /\ card_closed = {}
    /\ card_writes = {}
    /\ expired_replies = <<>>
    /\ news_handled = 0

\* api.rs:51 tenant_token starts as None.
NoToken == 0
\* A request body without a "sequence" field (create_card).
NoSequence == 0

\* The tasks that call the API concurrently: the main loop of the
\* front-end (feishu.rs:177-183, 350-383), which awaits one card update
\* after the other, and a card-creation task (feishu.rs:124-137).
Callers == {"main", "task"}

\* api.rs:517-582: the mutating CardKit calls put next_seq() in the body.
SequencedOps == {"update_card", "update_card_settings"}

OpsOf(c) == IF c = "main" THEN SequencedOps ELSE {"create_card"}

Idle == [pc |-> "idle", id |-> 0, op |-> "", sequence |-> NoSequence,
         token |-> NoToken, codes |-> <<>>, tokens |-> <<>>,
         fetched |-> <<>>, invalidated |-> FALSE]

ApiInit(ncalls, nexp) ==
    /\ tenant_token = NoToken
    /\ server_token = 1
    /\ seq_counter = 1
    /\ api_pc = [c \in Callers |-> Idle]
    /\ api_sent = <<>>
    /\ api_calls = <<>>
    /\ api_calls_left = ncalls
    /\ expiries_left = nexp

\* The work directory holds the files named by Paths.
Paths == {"f", "g"}

\* The element of a singleton.  The({F(x) : x \in {e}}) is F(e) with e
\* evaluated once, as a let binding of the code is.
The(S) == CHOOSE x \in S : TRUE

NoSeek == [type |-> "NoSeek"]
NoInput == [type |-> "NoInput"]

\* No patch is waiting and the work directory is empty.
PatchIdle ==
    /\ fs = [p \in Paths |-> None]
    /\ todo = <<>>
    /\ patch_pc = "idle"
    /\ hunks = <<>>
    /\ hunk_no = 0
    /\ fs_trail = <<>>
    /\ patch_log = <<>>
    /\ seek_call = NoSeek
    /\ patch_input = NoInput

Init == InitWith(MaxSubs, MaxWire, MaxRequests) /\ WsInit(MaxFrames) /\ FeInit
            /\ ApiInit(MaxApiCalls, MaxExpiries) /\ PatchIdle

\* ai.rs:338 emit: send on the EQ, the result of the send is ignored.
emit(q, event) == Append(q, event)

IsMessage(s) == s.kind \in {"UserMessage", "FollowUp"}

\* --------------------------------------------------------------- thread.rs
\* Mutant of SendResult: try_send, a full queue is an error.
SendResult_TrySend == IF pc = "done" \/ Len(sq) >= SQ_CAPACITY THEN "closed"
                      ELSE "ok"

\* AgentThread::submit: tx_sub.send(sub).await.  The send fails when the
\* receiver is gone (the agent task returned), takes a free slot when there
\* is one, and waits otherwise.
SendResult == IF pc = "done" THEN "closed"
              ELSE IF Len(sq) < SQ_CAPACITY THEN "ok" ELSE "wait"

Returned(s, res, waited) ==
    [sub |-> s, res |-> res, exited |-> (pc = "done"), waited |-> waited]

submit(s) ==
    /\ blocked = None
    /\ ~sq_closed
    /\ subs_left > 0
    /\ subs_left' = subs_left - 1
    /\ CASE SendResult = "closed" ->
              /\ calls' = Append(calls, Returned(s, "Agent thread closed", FALSE))
              /\ UNCHANGED <<sq, blocked>>
         [] SendResult = "ok" ->
              /\ sq' = Append(sq, s)
              /\ calls' = Append(calls, Returned(s, "ok", FALSE))
              /\ UNCHANGED blocked
         [] OTHER ->
              /\ blocked' = s
              /\ UNCHANGED <<sq, calls>>
    /\ UNCHANGED <<sq_closed, pc, sub, consumed, messages, last_request,
                   drainVars, toolVars, loop_result, eq, sub_start, turn_start,
                   dispatched, envVars>>
    /\ UNCHANGED otherVars

\* The text of the n-th submit call: every call has its own text.
UserTexts == <<"text 1", "text 2", "text 3", "text 4", "text 5">>

\* The front-end submits UserMessage first and FollowUp afterwards
\* (cli.rs:116-120, feishu.rs:100 and 147); Cancel and Shutdown at any time.
Submit ==
    \E kind \in SubmissionKinds :
        /\ kind = "UserMessage" => calls = <<>>
        /\ kind = "FollowUp" => calls # <<>>
        /\ submit([kind |-> kind,
                   text |-> IF kind \in {"UserMessage", "FollowUp"}
                            THEN UserTexts[Len(calls) + 1] ELSE ""])

\* A waiting send is woken when a slot frees or when the receiver is dropped.
SubmitWake ==
    /\ blocked # None
    /\ SendResult # "wait"
    /\ blocked' = None
    /\ IF SendResult = "closed"
       THEN /\ calls' = Append(calls, Returned(blocked, "Agent thread closed", TRUE))
            /\ UNCHANGED sq
       ELSE /\ sq' = Append(sq, blocked)
            /\ calls' = Append(calls, Returned(blocked, "ok", TRUE))
    /\ UNCHANGED <<sq_closed, subs_left, pc, sub, consumed, messages,
                   last_request, drainVars, toolVars, loop_result, eq,
                   sub_start, turn_start, dispatched, envVars>>
    /\ UNCHANGED otherVars

\* The last handle of the AgentThread is dropped: tx_sub is dropped and the
\* SQ closes; recv() still returns what is buffered.
DropThread ==
    /\ ~sq_closed
    /\ blocked = None
    /\ sq_closed' = TRUE
    /\ UNCHANGED <<sq, blocked, calls, subs_left, pc, sub, consumed, messages,
                   last_request, drainVars, toolVars, loop_result, eq,
                   sub_start, turn_start, dispatched, envVars>>
    /\ UNCHANGED otherVars

\* --------------------------------------------------------- ai.rs: AiAgent::run
\* Mutant of FinishSubmission: a failed inner loop is logged and not reported.
FinishSubmission_LogOnly(q, result) ==
    IF result = "ok" THEN emit(q, StatusChange("Completed")) ELSE q

\* ai.rs:85-93: the end of a submission, from what ai_loop returned.
FinishSubmission(q, result) ==
    IF result = "ok" THEN emit(q, StatusChange("Completed"))
    ELSE emit(q, ErrorEvent("err"))

\* Mutant of RunMatch: Shutdown falls through to the Cancel arm.
RunMatch_ShutdownCancels(s) ==
    IF IsMessage(s)
    THEN [push |-> <<user_message(s.text)>>, emits |-> <<>>, pc |-> "working"]
    ELSE [push |-> <<>>, emits |-> <<StatusChange("Cancelled")>>, pc |-> "done"]

\* ai.rs:78-101: the match on the submission, up to the first emit of a
\* message submission: the messages to push, the events to emit, and where
\* the task goes on (break leaves the loop and the task returns).
RunMatch(s) ==
    CASE IsMessage(s) ->
            [push |-> <<user_message(s.text)>>, emits |-> <<>>, pc |-> "working"]
      [] s.kind = "Cancel" ->
            [push |-> <<>>, emits |-> <<StatusChange("Cancelled")>>, pc |-> "done"]
      [] OTHER ->
            [push |-> <<>>, emits |-> <<>>, pc |-> "done"]

\* ai.rs:77: rx_sub.recv() returns the next buffered submission, or None
\* once the SQ is closed and empty, which ends the task.
Recv ==
    /\ pc = "recv"
    /\ sub_start' = Len(eq)
    /\ \/ /\ sq # <<>>
          /\ sub' = Head(sq)
          /\ sq' = Tail(sq)
          /\ consumed' = Append(consumed, Head(sq))
          /\ messages' = messages \o RunMatch(Head(sq)).push
          /\ eq' = eq \o RunMatch(Head(sq)).emits
          /\ pc' = RunMatch(Head(sq)).pc
       \/ /\ sq = <<>>
          /\ sq_closed
          /\ sub' = None
          /\ pc' = "done"
          /\ UNCHANGED <<sq, consumed, messages, eq>>
    /\ turn_faults' = {}
    /\ UNCHANGED <<frontVars, last_request, drainVars, toolVars, loop_result,
                   turn_start, dispatched, wire_left, requests_left,
                   next_tool_id>>
    /\ UNCHANGED otherVars

\* ai.rs:82
EmitWorking ==
    /\ pc = "working"
    /\ eq' = emit(eq, StatusChange("Working"))
    /\ pc' = "request"
    /\ UNCHANGED <<sq, frontVars, sub, consumed, messages, last_request,
                   drainVars, toolVars, loop_result, sub_start, turn_start,
                   dispatched, envVars>>
    /\ UNCHANGED otherVars

\* ------------------------------------------------------------ ai.rs: ai_loop
\* Mutant of CreateMessageRequest: only the newest message is sent.
CreateMessageRequest_LastOnly(msgs) == <<msgs[Len(msgs)]>>

\* ai.rs:129-136: the request carries a clone of the whole history.
CreateMessageRequest(msgs) == msgs

\* ai.rs:129-144: the request is sent and answered; the locals of the
\* iteration are fresh.
IssueRequest ==
    /\ pc = "request"
    /\ requests_left > 0
    /\ requests_left' = requests_left - 1
    /\ last_request' = CreateMessageRequest(messages)
    /\ assistant_content' = <<>>
    /\ current_text' = <<>>
    /\ current_tool_json' = <<>>
    /\ current_tool_block' = None
    /\ stop_reason' = "null"
    /\ block_index' = 0
    /\ tool_uses' = <<>>
    /\ executors' = <<>>
    /\ finish_order' = <<>>
    /\ turn_start' = Len(eq)
    /\ pc' = "drain"
    /\ UNCHANGED <<sq, frontVars, sub, consumed, messages, loop_result, eq,
                   sub_start, dispatched, wire_left, next_tool_id,
                   turn_faults>>
    /\ UNCHANGED otherVars

\* ai.rs:138 with client.rs:46-57: the request fails (network error or a
\* non-success status); ai_loop returns Err and run emits Error.
StreamMessageFails ==
    /\ pc = "request"
    /\ last_request' = CreateMessageRequest(messages)
    /\ loop_result' = "err"
    /\ eq' = FinishSubmission(eq, "err")
    /\ pc' = "recv"
    /\ UNCHANGED <<sq, frontVars, sub, consumed, messages, drainVars, toolVars,
                   sub_start, turn_start, dispatched, envVars>>
    /\ UNCHANGED otherVars

\* ai.rs:159 serde_json::from_str(&current_tool_json).unwrap_or({}): one
\* fragment is a complete object, anything else does not parse.
ParseToolInput(json) == IF Len(json) = 1 THEN json[1] ELSE "{}"

\* ai.rs:151-156 and 224-229: a non-empty text becomes a Text block.
FinalizeText(content, text) ==
    IF text # <<>> THEN Append(content, Text(text)) ELSE content

\* ai.rs:157-165 and 230-237: a pending tool block gets its parsed input.
FinalizeTool(content, block, json) ==
    IF block # None
    THEN Append(content, ToolUse(block.id, block.name, ParseToolInput(json)))
    ELSE content

\* ai.rs:258-266
ToolUsesOf(content) == SelectSeq(content, LAMBDA b : b.type = "tool_use")

\* Mutant of LockMode: every executor takes the read lock.
LockMode_AllRead(name) == "read"

\* ai.rs:289-295: the lock an executor takes.
LockMode(name) == IF supports_parallel(name) THEN "read" ELSE "write"

\* Mutant of AfterDrain: the history is restarted with the assistant message.
AfterDrain_StartsOver(q, content, reason) ==
    /\ messages' = <<assistant_message(content)>>
    /\ tool_uses' = ToolUsesOf(content)
    /\ finish_order' = <<>>
    /\ IF ToolUsesOf(content) = <<>> \/ reason # STOP_REASON_TOOL_USE
       THEN /\ loop_result' = "ok"
            /\ eq' = FinishSubmission(q, "ok")
            /\ pc' = "recv"
            /\ executors' = <<>>
            /\ UNCHANGED dispatched
       ELSE /\ eq' = q
            /\ pc' = "join"
            /\ executors' = [i \in 1..Len(ToolUsesOf(content)) |->
                               [st |-> "spawned", res |-> "none"]]
            /\ dispatched' = dispatched \cup {Len(messages) + 1}
            /\ UNCHANGED loop_result

\* ai.rs:253-297 and 85-88: after the drain the assistant message is pushed;
\* without tool uses, or with another stop_reason than tool_use, ai_loop
\* returns Ok and run emits Completed; otherwise one executor per tool use
\* is spawned.
AfterDrain(q, content, reason) ==
    /\ messages' = Append(messages, assistant_message(content))
    /\ tool_uses' = ToolUsesOf(content)
    /\ finish_order' = <<>>
    /\ IF ToolUsesOf(content) = <<>> \/ reason # STOP_REASON_TOOL_USE
       THEN /\ loop_result' = "ok"
            /\ eq' = FinishSubmission(q, "ok")
            /\ pc' = "recv"
            /\ executors' = <<>>
            /\ UNCHANGED dispatched
       ELSE /\ eq' = q
            /\ pc' = "join"
            /\ executors' = [i \in 1..Len(ToolUsesOf(content)) |->
                               [st |-> "spawned", res |-> "none"]]
            /\ dispatched' = dispatched \cup {Len(messages) + 1}
            /\ UNCHANGED loop_result

\* ai.rs:146-251 with client.rs:64-89: the endpoint sends one SSE event; the
\* reader task parses it and, unless it is dropped, the drain loop handles it.
StreamEventOf(events) ==
    /\ pc = "drain"
    /\ wire_left > 0
    /\ wire_left' = wire_left - 1
    /\ \E w \in events :
        LET evt == parse_sse_event(w, next_tool_id) IN
        /\ next_tool_id' = IF w.kind = "tool_use" THEN next_tool_id + 1
                           ELSE next_tool_id
        /\ turn_faults' = IF Malformed(w)
                          THEN turn_faults \cup {"malformed"}
                          ELSE turn_faults
        /\ CASE evt.type = "ContentBlockStart" ->
                  LET content == FinalizeTool(
                                   FinalizeText(assistant_content, current_text),
                                   current_tool_block, current_tool_json)
                      index == IF current_tool_block # None
                               THEN block_index + 1 ELSE block_index
                  IN
                  /\ assistant_content' = content
                  /\ current_text' = <<>>
                  /\ current_tool_json' =
                        IF current_tool_block # None
                           \/ evt.content_block.type = "tool_use"
                        THEN <<>> ELSE current_tool_json
                  /\ block_index' = index
                  /\ current_tool_block' =
                        IF evt.content_block.type = "tool_use"
                        THEN evt.content_block ELSE None
                  /\ eq' = emit(eq, [type |-> "ContentBlockStart",
                                     index |-> index,
                                     content_block |-> evt.content_block])
                  /\ UNCHANGED <<stop_reason, messages, toolVars, loop_result,
                                 pc, dispatched>>
             [] evt.type = "TextDelta" ->
                  /\ current_text' = Append(current_text, evt.text)
                  /\ eq' = emit(eq, [type |-> "TextDelta", index |-> block_index,
                                     text |-> evt.text])
                  /\ UNCHANGED <<assistant_content, current_tool_json,
                                 current_tool_block, stop_reason, block_index,
                                 messages, toolVars, loop_result, pc, dispatched>>
             [] evt.type = "InputJsonDelta" ->
                  /\ current_tool_json' = Append(current_tool_json, evt.partial_json)
                  /\ eq' = emit(eq, [type |-> "InputJsonDelta",
                                     index |-> block_index,
                                     partial_json |-> evt.partial_json])
                  /\ UNCHANGED <<assistant_content, current_text,
                                 current_tool_block, stop_reason, block_index,
                                 messages, toolVars, loop_result, pc, dispatched>>
             [] evt.type = "ContentBlockStop" ->
                  /\ eq' = emit(eq, [type |-> "ContentBlockStop",
                                     index |-> block_index])
                  /\ assistant_content' =
                        FinalizeTool(FinalizeText(assistant_content, current_text),
                                     current_tool_block, current_tool_json)
                  /\ current_text' = <<>>
                  /\ current_tool_json' =
                        IF current_tool_block # None THEN <<>>
                        ELSE current_tool_json
                  /\ current_tool_block' = None
                  /\ block_index' = block_index + 1
                  /\ UNCHANGED <<stop_reason, messages, toolVars, loop_result,
                                 pc, dispatched>>
             [] evt.type = "MessageDelta" ->
                  /\ stop_reason' = evt.stop_reason
                  /\ eq' = emit(eq, [type |-> "MessageDelta",
                                     stop_reason |-> evt.stop_reason])
                  /\ UNCHANGED <<assistant_content, current_text,
                                 current_tool_json, current_tool_block,
                                 block_index, messages, toolVars, loop_result,
                                 pc, dispatched>>
             [] evt.type = "MessageStop" ->
                  /\ AfterDrain(emit(eq, [type |-> "MessageStop"]),
                                assistant_content, stop_reason)
                  /\ UNCHANGED drainVars
             [] OTHER ->
                  UNCHANGED <<drainVars, messages, toolVars, loop_result, eq,
                              pc, dispatched>>
    /\ UNCHANGED <<sq, frontVars, sub, consumed, last_request, sub_start,
                   turn_start, requests_left>>
    /\ UNCHANGED otherVars

StreamEvent == StreamEventOf(WireEvents)

\* client.rs:64-70 and 89: the response body ends, or a transport error
\* breaks the reader loop; the channel closes without MessageStop.
StreamClosed ==
    /\ pc = "drain"
    /\ AfterDrain(eq, assistant_content, stop_reason)
    /\ \E cause \in {"end of body", "transport error"} :
          turn_faults' = IF cause = "transport error"
                         THEN turn_faults \cup {"interrupted"}
                         ELSE turn_faults
    /\ UNCHANGED <<sq, frontVars, sub, consumed, last_request, drainVars,
                   sub_start, turn_start, wire_left, requests_left,
                   next_tool_id>>
    /\ UNCHANGED otherVars

\* --------------------------------------------- ai.rs:276-297: tool executors
Running(i) == executors[i].st = "running"

\* tokio RwLock: a read guard excludes writers, a write guard excludes all.
CanAcquire(i) ==
    IF LockMode(tool_uses[i].name) = "read"
    THEN \A j \in DOMAIN executors :
            Running(j) => LockMode(tool_uses[j].name) = "read"
    ELSE \A j \in DOMAIN executors : ~Running(j)

\* ai.rs:290 and 293: the executor task gets its guard.
ExecAcquire ==
    /\ pc = "join"
    /\ \E i \in DOMAIN executors :
        /\ executors[i].st = "spawned"
        /\ CanAcquire(i)
        /\ executors' = [executors EXCEPT ![i].st = "running"]
    /\ UNCHANGED <<sq, frontVars, pc, sub, consumed, messages, last_request,
                   drainVars, tool_uses, finish_order, loop_result, eq,
                   sub_start, turn_start, dispatched, envVars>>
    /\ UNCHANGED otherVars

\* ai.rs:291 and 294: execute_tool returns (or panics) and the guard drops.
ExecFinish ==
    /\ pc = "join"
    /\ \E i \in DOMAIN executors :
        /\ Running(i)
        /\ \E r \in execute_tool_outcomes(tool_uses[i].name, tool_uses[i].input) :
              executors' = [executors EXCEPT ![i] = [st |-> "done", res |-> r]]
        /\ finish_order' = Append(finish_order, i)
    /\ UNCHANGED <<sq, frontVars, pc, sub, consumed, messages, last_request,
                   drainVars, tool_uses, loop_result, eq, sub_start, turn_start,
                   dispatched, envVars>>
    /\ UNCHANGED otherVars

\* Mutant of JoinOrder: the results are taken as the tasks complete.
JoinOrder_AsCompleted == finish_order

\* ai.rs:299-302: join_all yields the results in the order of the handles,
\* which is the order of tool_uses.
JoinOrder == [i \in 1..Len(executors) |-> i]

\* ai.rs:305-315: the ToolResult block of one tool.
ResultBlock(i) ==
    IF executors[i].res = "ok"
    THEN tool_result_block(tool_uses[i].id, "output", FALSE)
    ELSE tool_result_block(tool_uses[i].id, "Error: e", TRUE)

\* ai.rs:304: the first position of the join order whose task panicked
\* (JoinError), or one past the end.
FirstJoinError(order) ==
    IF \E k \in DOMAIN order : executors[order[k]].res = "panic"
    THEN CHOOSE k \in DOMAIN order :
            /\ executors[order[k]].res = "panic"
            /\ \A j \in 1..(k - 1) : executors[order[j]].res # "panic"
    ELSE Len(order) + 1

\* ai.rs:316-331: ContentBlockStart and ContentBlockStop of the first n results.
RECURSIVE ResultEvents(_, _, _)
ResultEvents(order, n, index) ==
    IF n = 0 THEN <<>>
    ELSE ResultEvents(order, n - 1, index)
         \o <<[type |-> "ContentBlockStart", index |-> index + n - 1,
               content_block |-> ResultBlock(order[n])],
              [type |-> "ContentBlockStop", index |-> index + n - 1]>>

\* ai.rs:299-334 and 90-93: all executor tasks have finished.  The results
\* are emitted in join order up to the first JoinError, which makes ai_loop
\* return Err; without one the tool-result message is pushed and the loop
\* goes on with the next request.
CollectResults ==
    /\ pc = "join"
    /\ \A i \in DOMAIN executors : executors[i].st = "done"
    /\ LET order == JoinOrder
           n == FirstJoinError(order) - 1
           events == ResultEvents(order, n, block_index)
       IN
       /\ block_index' = block_index + n
       /\ IF n < Len(order)
          THEN /\ loop_result' = "err"
               /\ eq' = FinishSubmission(eq \o events, "err")
               /\ pc' = "recv"
               /\ UNCHANGED messages
          ELSE /\ eq' = eq \o events
               /\ messages' = Append(messages, user_message_with_tool_results(
                                 [k \in 1..n |-> ResultBlock(order[k])]))
               /\ pc' = "request"
               /\ UNCHANGED loop_result
    /\ UNCHANGED <<sq, frontVars, sub, consumed, last_request,
                   assistant_content, current_text, current_tool_json,
                   current_tool_block, stop_reason, toolVars, sub_start,
                   turn_start, dispatched, envVars>>
    /\ UNCHANGED otherVars

Next ==
    \/ Submit
    \/ SubmitWake
    \/ DropThread
    \/ Recv
    \/ EmitWorking
    \/ IssueRequest
    \/ StreamMessageFails
    \/ StreamEvent
    \/ StreamClosed
    \/ ExecAcquire
    \/ ExecFinish
    \/ CollectResults

Spec == Init /\ [][Next]_vars

\* One submission answered with tool calls: the endpoint sends only the
\* events of a response that calls tools.
ToolWireEvents ==
    {w \in WireEvents :
        \/ w.event = "content_block_start" /\ w.kind = "tool_use"
        \/ w.event = "content_block_delta" /\ w.kind = "input_json_delta"
        \/ w.event = "content_block_stop"
        \/ w.event = "message_delta" /\ w.arg = STOP_REASON_TOOL_USE
        \/ w.event = "message_stop" /\ w.kind = ""}

InitTools ==
    /\ InitWith(1, MaxToolWire, MaxRequests)
    /\ WsInit(MaxFrames)
    /\ FeInit
    /\ ApiInit(MaxApiCalls, MaxExpiries)
    /\ PatchIdle

NextTools ==
    \/ Submit
    \/ Recv
    \/ EmitWorking
    \/ IssueRequest
    \/ StreamMessageFails
    \/ StreamEventOf(ToolWireEvents)
    \/ StreamClosed
    \/ ExecAcquire
    \/ ExecFinish
    \/ CollectResults

SpecTools == InitTools /\ [][NextTools]_vars

\* One submission answered with calls of apply_patch and read_file.
LockWireEvents ==
    {w \in ToolWireEvents : w.kind # "tool_use"}
    \cup {[event |-> "content_block_start", kind |-> "tool_use", arg |-> n] :
            n \in {"apply_patch", "read_file"}}

NextLock ==
    \/ Submit
    \/ Recv
    \/ EmitWorking
    \/ IssueRequest
    \/ StreamMessageFails
    \/ StreamEventOf(LockWireEvents)
    \/ StreamClosed
    \/ ExecAcquire
    \/ ExecFinish
    \/ CollectResults

SpecLock == InitTools /\ [][NextLock]_vars

\* ----------------------------------------------- agent/claude.rs: ClaudeAgent
\* The lines the claude process can write to its stdout: the stream-json
\* messages by type, a blank line and a line that is no JSON.
ClaudeLines ==
    {[type |-> "system"], [type |-> "blank"],
     [type |-> "assistant", block |-> "text"],
     [type |-> "assistant", block |-> "tool_use"],
     [type |-> "user", block |-> "tool_result"],
     [type |-> "result", subtype |-> "success"],
     [type |-> "result", subtype |-> "error"]}

\* claude.rs:179-251 handle_assistant: the events of the one block of the
\* message.
handle_assistant(json, index) ==
    IF json.block = "text"
    THEN <<[type |-> "ContentBlockStart", index |-> index,
            content_block |-> Text(<<>>)],
           [type |-> "TextDelta", index |-> index, text |-> "x"],
           [type |-> "ContentBlockStop", index |-> index]>>
    ELSE <<[type |-> "ContentBlockStart", index |-> index,
            content_block |-> ToolUse("id", "Bash", "{}")],
           [type |-> "ContentBlockStop", index |-> index]>>

\* claude.rs:253-293 handle_user: the events of a tool_result block.
handle_user(json, index) ==
    <<[type |-> "ContentBlockStart", index |-> index,
       content_block |-> tool_result_block("id", "output", FALSE)],
      [type |-> "ContentBlockStop", index |-> index]>>

\* claude.rs:295-311 handle_result: an error result is emitted as Error;
\* a success result is only logged.
handle_result(json) ==
    IF json.subtype = "error" THEN <<ErrorEvent("Unknown error")>> ELSE <<>>

\* claude.rs:139-170: the events of one line of stdout.
LineEvents(json, index) ==
    IF json.type = "assistant" THEN handle_assistant(json, index)
    ELSE IF json.type = "user" THEN handle_user(json, index)
    ELSE IF json.type = "result" THEN handle_result(json)
    ELSE <<>>

\* claude.rs:37-45: recv() and the match on the submission.
ClaudeRecv ==
    /\ pc = "recv"
    /\ sub_start' = Len(eq)
    /\ \/ /\ sq # <<>>
          /\ sub' = Head(sq)
          /\ sq' = Tail(sq)
          /\ consumed' = Append(consumed, Head(sq))
          /\ eq' = eq \o RunMatch(Head(sq)).emits
          /\ pc' = RunMatch(Head(sq)).pc
       \/ /\ sq = <<>>
          /\ sq_closed
          /\ sub' = None
          /\ pc' = "done"
          /\ UNCHANGED <<sq, consumed, eq>>
    /\ UNCHANGED <<frontVars, messages, last_request, drainVars, toolVars,
                   loop_result, turn_start, dispatched, envVars>>
    /\ UNCHANGED otherVars

\* claude.rs:47
ClaudeWorking ==
    /\ pc = "working"
    /\ eq' = emit(eq, StatusChange("Working"))
    /\ pc' = "spawn"
    /\ UNCHANGED <<sq, frontVars, sub, consumed, messages, last_request,
                   drainVars, toolVars, loop_result, sub_start, turn_start,
                   dispatched, envVars>>
    /\ UNCHANGED otherVars

\* claude.rs:49-60: what run emits for the result of run_claude_process.
RunClaudeReturns(result) ==
    /\ loop_result' = result
    /\ eq' = FinishSubmission(eq, result)
    /\ pc' = "recv"

\* claude.rs:113-137: the process is spawned and its stdout is read from,
\* or the spawn fails and run_claude_process returns the error.
ClaudeSpawn ==
    /\ pc = "spawn"
    /\ \/ /\ pc' = "stdout"
          /\ block_index' = 0
          /\ UNCHANGED <<eq, loop_result>>
       \/ /\ RunClaudeReturns("err")
          /\ UNCHANGED block_index
    /\ UNCHANGED <<sq, frontVars, sub, consumed, messages, last_request,
                   assistant_content, current_text, current_tool_json,
                   current_tool_block, stop_reason, toolVars, sub_start,
                   turn_start, dispatched, envVars>>
    /\ UNCHANGED otherVars

\* claude.rs:139-170: the next line of stdout is handled.
ClaudeLine ==
    /\ pc = "stdout"
    /\ wire_left > 0
    /\ wire_left' = wire_left - 1
    /\ \E json \in ClaudeLines :
          \E events \in {LineEvents(json, block_index)} :
              /\ eq' = eq \o events
              /\ block_index' = block_index
                    + Len(SelectSeq(events,
                                    LAMBDA e : e.type = "ContentBlockStop"))
    /\ UNCHANGED <<sq, frontVars, sub, consumed, messages, last_request,
                   assistant_content, current_text, current_tool_json,
                   current_tool_block, stop_reason, toolVars, loop_result,
                   pc, sub_start, turn_start, dispatched, requests_left,
                   next_tool_id, turn_faults>>
    /\ UNCHANGED otherVars

\* claude.rs:139 and 172-176: stdout ends and the exit status is awaited
\* (Ok only for a success status), or reading a line fails.
ClaudeExit ==
    /\ pc = "stdout"
    /\ \E ending \in {"success", "failure", "wait error", "read error"} :
          RunClaudeReturns(IF ending = "success" THEN "ok" ELSE "err")
    /\ UNCHANGED <<sq, frontVars, sub, consumed, messages, last_request,
                   drainVars, toolVars, sub_start, turn_start, dispatched,
                   envVars>>
    /\ UNCHANGED otherVars

NextClaude ==
    \/ Submit
    \/ SubmitWake
    \/ DropThread
    \/ ClaudeRecv
    \/ ClaudeWorking
    \/ ClaudeSpawn
    \/ ClaudeLine
    \/ ClaudeExit

SpecClaude == Init /\ [][NextClaude]_vars

\* ----------------------------------------------- transport/feishu/proto.rs
METHOD_CONTROL == 0
METHOD_DATA == 1
MSG_TYPE_EVENT == "event"
MSG_TYPE_PONG == "pong"

\* A frame as handle_frame reads it: seq_id, method, the headers type,
\* message_id, sum and seq, and the payload (a sequence of byte chunks).
Frame(seq_id, method, type, message_id, sum, seq, payload) ==
    [seq_id |-> seq_id, method |-> method,
     headers |-> [type |-> type, message_id |-> message_id,
                  sum |-> sum, seq |-> seq],
     payload |-> payload]

\* ----------------------------------------------- transport/feishu/event.rs
\* A payload: the sequence of its byte chunks.
Bytes(b) == [type |-> "bytes", b |-> b]

NewDoc == Bytes(<<"new">>)
ReplyDoc(c) == Bytes(<<"reply", c>>)
\* The two parts of a NewMessage event that the backend split in two frames.
MultiParts == <<Bytes(<<"N1">>), Bytes(<<"N2">>)>>
MultiDoc == Bytes(<<"N1", "N2">>)

\* serde_json::from_str at event.rs:233: the payloads that are JSON texts.
JsonDocs == {NewDoc, Bytes(<<"other">>), MultiDoc}
                \cup {ReplyDoc(c) : c \in CardRefs}

\* event.rs:305-351: a text message event becomes ReplyMessage when it has a
\* parent_id and NewMessage otherwise; every other event is ignored.
parse_event_json(json) ==
    CASE json = NewDoc \/ json = MultiDoc ->
            [type |-> "NewMessage", conv_id |-> "chat", user_id |-> "u",
             text |-> "hi"]
      [] Len(json.b) = 2 /\ json.b[1] = "reply" ->
            [type |-> "ReplyMessage", card_msg_id |-> json.b[2], text |-> "re"]
      [] OTHER -> None

\* event.rs:293-297: the parts flattened in slot order.
RECURSIVE Concat(_)
Concat(parts) ==
    IF parts = <<>> THEN Bytes(<<>>)
    ELSE Bytes(Concat(SubSeq(parts, 1, Len(parts) - 1)).b \o parts[Len(parts)].b)

\* Mutant of merge_parts: the message is emitted when its last-numbered part
\* arrives, from the parts present by then.
merge_parts_OnLastSeq(cache, message_id, sum, seq, data) ==
    IF sum <= 1 THEN [cache |-> cache, out |-> data]
    ELSE LET entry == IF cache[message_id] = None
                      THEN [parts |-> [k \in 1..sum |-> None], expired |-> FALSE]
                      ELSE cache[message_id]
             parts == IF seq < Len(entry.parts)
                      THEN [entry.parts EXCEPT ![seq + 1] = data]
                      ELSE entry.parts
         IN IF seq = sum - 1
            THEN [cache |-> [cache EXCEPT ![message_id] = None],
                  out |-> Concat(SelectSeq(parts, LAMBDA p : p # None))]
            ELSE [cache |-> [cache EXCEPT
                               ![message_id] = [entry EXCEPT !.parts = parts]],
                  out |-> None]

\* event.rs:268-303 merge_parts: the cache after the call and the merged
\* payload, or None while a part is missing.
merge_parts(cache, message_id, sum, seq, data) ==
    IF sum <= 1 THEN [cache |-> cache, out |-> data]
    ELSE LET entry == IF cache[message_id] = None
                      THEN [parts |-> [k \in 1..sum |-> None], expired |-> FALSE]
                      ELSE cache[message_id]
             parts == IF seq < Len(entry.parts)
                      THEN [entry.parts EXCEPT ![seq + 1] = data]
                      ELSE entry.parts
         IN IF \A k \in DOMAIN parts : parts[k] # None
            THEN [cache |-> [cache EXCEPT ![message_id] = None],
                  out |-> Concat(parts)]
            ELSE [cache |-> [cache EXCEPT
                               ![message_id] = [entry EXCEPT !.parts = parts]],
                  out |-> None]

\* event.rs:247-261: the response frame: the seq_id and the headers of the
\* frame, the header biz_rt = "0" added, and the payload {"code": code}.
ResponseFrame(frame, code) ==
    [seq_id |-> frame.seq_id, method |-> METHOD_DATA,
     headers |-> frame.headers, biz_rt |-> "0", code |-> code]

\* event.rs:180-266 handle_frame: what one frame does to the cache, the
\* event sent on the bridge (or None), the response written to the socket
\* (or None), and the merge_parts call made (or None).
handle_frame(frame, cache) ==
    IF frame.method = METHOD_CONTROL
    THEN [cache |-> cache, evt |-> None, resp |-> None, merge |-> None]
    ELSE IF frame.method # METHOD_DATA
    THEN [cache |-> cache, evt |-> None, resp |-> None, merge |-> None]
    ELSE IF frame.headers.type # MSG_TYPE_EVENT
    THEN [cache |-> cache, evt |-> None, resp |-> None, merge |-> None]
    ELSE LET h == frame.headers
             r == merge_parts(cache, h.message_id, h.sum, h.seq, frame.payload)
             call == [message_id |-> h.message_id, sum |-> h.sum,
                      seq |-> h.seq, data |-> frame.payload,
                      before |-> IF h.sum <= 1 THEN None
                                 ELSE cache[h.message_id],
                      after |-> IF h.sum <= 1 THEN None
                                ELSE r.cache[h.message_id],
                      out |-> r.out, epoch |-> 0]
         IN IF r.out = None
            THEN [cache |-> r.cache, evt |-> None, resp |-> None,
                  merge |-> call]
            ELSE [cache |-> r.cache,
                  evt |-> IF r.out \in JsonDocs THEN parse_event_json(r.out)
                          ELSE None,
                  resp |-> ResponseFrame(frame,
                              IF r.out \in JsonDocs THEN 200 ELSE 500),
                  merge |-> call]

\* event.rs:169: entries created 10 s ago or earlier are dropped.
Retain(cache) ==
    [m \in MessageIds |->
        IF cache[m] # None /\ cache[m].expired THEN None ELSE cache[m]]

Evicted(cache) == {m \in MessageIds : cache[m] # None /\ cache[m].expired}

\* The frames the backend sends: a pong, a frame of an unknown method, a
\* data frame that is no event, single-frame events, and the parts of the
\* two-part message "m" (seq 2 is a part number out of range).
ControlFrames(id) ==
    {Frame(id, METHOD_CONTROL, MSG_TYPE_PONG, "", 1, 0, Bytes(<<"pong">>)),
     Frame(id, 2, MSG_TYPE_EVENT, "", 1, 0, Bytes(<<>>)),
     Frame(id, METHOD_DATA, "card", "s", 1, 0, NewDoc)}

EventFrames(id) ==
    {Frame(id, METHOD_DATA, MSG_TYPE_EVENT, "s", 1, 0, d) :
        d \in {NewDoc} \cup {ReplyDoc(c) : c \in CardRefs}}

OtherFrames(id) ==
    {Frame(id, METHOD_DATA, MSG_TYPE_EVENT, "s", 1, 0, d) :
        d \in {Bytes(<<"other">>), Bytes(<<"bad">>)}}
    \cup {Frame(id, METHOD_DATA, MSG_TYPE_EVENT, "m", 2, k, MultiParts[k + 1]) :
            k \in 0..1}
    \cup {Frame(id, METHOD_DATA, MSG_TYPE_EVENT, "m", 2, 2, Bytes(<<"N3">>))}

WsFrames(id) ==
    ControlFrames(id) \cup OtherFrames(id)
        \cup {Frame(id, METHOD_DATA, MSG_TYPE_EVENT, "s", 1, 0, NewDoc)}

\* event.rs:72-121: endpoint discovery and the connect.  Any failure
\* (HTTP error, code # 0, no data, connect failed) returns Err; a success
\* starts the read loop with an empty cache.  The PingInterval of the
\* response is taken to be positive (event.rs:120 would panic on zero).
WsDiscover ==
    /\ ws_pc = "discover"
    /\ \/ /\ ws_epoch < MaxConnects
          /\ ws_pc' = "connected"
          /\ ws_epoch' = ws_epoch + 1
          /\ msg_cache' = EmptyCache
       \/ /\ ws_pc' = "sleep"
          /\ UNCHANGED <<ws_epoch, msg_cache>>
    /\ UNCHANGED <<ws_recv, ws_sent, ws_merges, ws_evictions, bridge,
                   ws_frames_left>>
    /\ UNCHANGED <<agentVars, patchVars, feVars, apiVars>>

\* event.rs:141-169: one binary frame is read and handled, then the expired
\* cache entries are dropped.  tx.send waits while the bridge is full.
RecvFrame(frames) ==
    /\ ws_pc = "connected"
    /\ ws_frames_left > 0
    /\ \E f \in frames :
         LET r == handle_frame(f, msg_cache)
         IN /\ r.evt # None => Len(bridge) < BRIDGE_CAPACITY
            /\ bridge' = IF r.evt # None THEN Append(bridge, r.evt) ELSE bridge
            /\ ws_sent' = IF r.resp # None THEN Append(ws_sent, r.resp)
                          ELSE ws_sent
            /\ ws_merges' = IF r.merge # None
                            THEN Append(ws_merges,
                                        [r.merge EXCEPT !.epoch = ws_epoch])
                            ELSE ws_merges
            /\ ws_recv' = Append(ws_recv, [frame |-> f, epoch |-> ws_epoch])
            /\ msg_cache' = Retain(r.cache)
            /\ ws_evictions' = ws_evictions \cup
                   {<<ws_epoch, m>> : m \in Evicted(r.cache)}
    /\ ws_frames_left' = ws_frames_left - 1
    /\ UNCHANGED <<ws_pc, ws_epoch>>
    /\ UNCHANGED <<agentVars, patchVars, feVars, apiVars>>

\* event.rs:126-139 and 169: the ping timer fires, the ping is written and
\* the expired cache entries are dropped.
PingTick ==
    /\ ws_pc = "connected"
    /\ msg_cache' = Retain(msg_cache)
    /\ ws_evictions' = ws_evictions \cup
           {<<ws_epoch, m>> : m \in Evicted(msg_cache)}
    /\ UNCHANGED <<ws_pc, ws_epoch, ws_recv, ws_sent, ws_merges, bridge,
                   ws_frames_left>>
    /\ UNCHANGED <<agentVars, patchVars, feVars, apiVars>>

\* event.rs:47 and 169: 10 s have passed since an entry was created.
TimePasses ==
    /\ ws_pc = "connected"
    /\ \E m \in MessageIds :
         /\ msg_cache[m] # None
         /\ ~msg_cache[m].expired
         /\ msg_cache' = [msg_cache EXCEPT ![m].expired = TRUE]
    /\ UNCHANGED <<ws_pc, ws_epoch, ws_recv, ws_sent, ws_merges,
                   ws_evictions, bridge, ws_frames_left>>
    /\ UNCHANGED <<agentVars, patchVars, feVars, apiVars>>

WsDisconnect_DropsIndex ==
    /\ ws_pc = "connected"
    /\ ws_pc' = "sleep"
    /\ msg_cache' = EmptyCache
    /\ card_to_thread' = [c \in CardRefs |-> NoThread]
    /\ UNCHANGED <<ws_epoch, ws_recv, ws_sent, ws_merges, ws_evictions,
                   bridge, ws_frames_left>>
    /\ UNCHANGED <<fe, threads, sqs, eqs, agents, pollers, main_blocked,
                   render_states, card_tasks, card_owner, fe_turns,
                   turns_done, card_spawned, card_closed, card_writes,
                   expired_replies, news_handled>>
    /\ UNCHANGED <<agentVars, patchVars, apiVars>>

\* event.rs:137, 142-146, 150 and 159-162: run_ws_connection returns, Ok on
\* a close or the end of the stream, Err on a read, write or decode error;
\* the cache of the connection is gone.  event.rs:56-63: either way the
\* loop goes on to the sleep.
WsDisconnect ==
    /\ ws_pc = "connected"
    /\ ws_pc' = "sleep"
    /\ msg_cache' = EmptyCache
    /\ UNCHANGED <<ws_epoch, ws_recv, ws_sent, ws_merges, ws_evictions,
                   bridge, ws_frames_left>>
    /\ UNCHANGED <<agentVars, patchVars, feVars, apiVars>>

\* event.rs:147-150: a binary message that is no protobuf Frame.
\* Frame::decode fails and the ? returns the error from run_ws_connection
\* before handle_frame is called: nothing is written to the socket and the
\* connection and its cache are dropped; event.rs:56-63 goes on to the sleep.
RecvUndecodable ==
    /\ ws_pc = "connected"
    /\ ws_frames_left > 0
    /\ ws_frames_left' = ws_frames_left - 1
    /\ ws_pc' = "sleep"
    /\ msg_cache' = EmptyCache
    /\ UNCHANGED <<ws_epoch, ws_recv, ws_sent, ws_merges, ws_evictions,
                   bridge>>
    /\ UNCHANGED <<agentVars, patchVars, feVars, apiVars>>

\* event.rs:64: after the 3 s sleep the loop starts over at the discovery.
WsSleep ==
    /\ ws_pc = "sleep"
    /\ ws_pc' = "discover"
    /\ UNCHANGED <<ws_epoch, msg_cache, ws_recv, ws_sent, ws_merges,
                   ws_evictions, bridge, ws_frames_left>>
    /\ UNCHANGED <<agentVars, patchVars, feVars, apiVars>>

\* ------------------------------------------------- frontend/feishu.rs
\* feishu.rs:213-232: the listener task takes an event from the bridge and
\* sends it on the front-end channel; the send waits while that is full.
BridgeForward ==
    /\ bridge # <<>>
    /\ Len(fe) < FE_CAPACITY
    /\ fe' = Append(fe, Head(bridge))
    /\ bridge' = Tail(bridge)
    /\ UNCHANGED <<ws_pc, ws_epoch, msg_cache, ws_recv, ws_sent, ws_merges,
                   ws_evictions, ws_frames_left>>
    /\ UNCHANGED <<agentVars, patchVars, apiVars, mainVars>>

\* The event loop of the transport with the listener task behind it.
NextWs ==
    \/ WsDiscover
    \/ RecvFrame(WsFrames(MaxFrames - ws_frames_left + 1))
    \/ RecvUndecodable
    \/ PingTick
    \/ TimePasses
    \/ WsDisconnect
    \/ WsSleep
    \/ BridgeForward

SpecWs == Init /\ [][NextWs]_vars

\* ------------------------------------------------- transport/feishu/api.rs
CODE_TOKEN_INVALID == 99991663
CODE_TOKEN_EXPIRED == 99991661
\* A response code that is neither 0 nor a token error.
CODE_OTHER == 230001

\* Mutant of is_token_error: only the code "token invalid" is recognised.
is_token_error_InvalidOnly(code) == code = CODE_TOKEN_INVALID

\* api.rs:100-102
is_token_error(code) == code = CODE_TOKEN_INVALID \/ code = CODE_TOKEN_EXPIRED

\* The codes the backend may answer a request that carries `token`.
ResponseCodes(token) ==
    IF token = server_token THEN {0, CODE_OTHER}
    ELSE {CODE_TOKEN_INVALID, CODE_TOKEN_EXPIRED}

\* Mutant of RetryDecision: every token error is retried.
RetryDecision_Loop(attempt, code) ==
    IF is_token_error(code) THEN "refresh"
    ELSE IF code = 0 THEN "ok" ELSE "err"

\* api.rs:473-496 cardkit_call: what follows the response to the first and
\* to the re-sent request.
RetryDecision(attempt, code) ==
    IF attempt = 1
    THEN IF is_token_error(code) THEN "refresh"
         ELSE IF code = 0 THEN "ok" ELSE "err"
    ELSE IF code = 0 THEN "ok" ELSE "err"

\* The call of caller c returns: its record joins the log of finished calls.
Finish(c, st, result) ==
    /\ api_calls' = Append(api_calls,
                           [caller |-> c, id |-> st.id, op |-> st.op,
                            sequence |-> st.sequence, codes |-> st.codes,
                            tokens |-> st.tokens, fetched |-> st.fetched,
                            invalidated |-> st.invalidated,
                            result |-> result])
    /\ api_pc' = [api_pc EXCEPT ![c] = Idle]

\* api.rs:517-529 and 454-460: the caller builds the body, with the next
\* sequence value when the operation carries one, and enters cardkit_call.
ApiBegin(c) ==
    /\ api_pc[c].pc = "idle"
    /\ api_calls_left > 0
    /\ api_calls_left' = api_calls_left - 1
    /\ \E op \in OpsOf(c) :
         /\ api_pc' = [api_pc EXCEPT ![c] =
                          [Idle EXCEPT !.pc = "get_token",
                                       !.id = MaxApiCalls - api_calls_left + 1,
                                       !.op = op,
                                       !.sequence = IF op \in SequencedOps
                                                    THEN seq_counter
                                                    ELSE NoSequence]]
         /\ seq_counter' = IF op \in SequencedOps THEN seq_counter + 1
                           ELSE seq_counter
    /\ UNCHANGED <<tenant_token, server_token, api_sent, api_calls,
                   expiries_left>>
    /\ UNCHANGED <<agentVars, patchVars, wsVars, feVars>>

\* api.rs:60-68 get_token: the cached token, or a refresh when there is none.
ApiGetToken(c) ==
    /\ api_pc[c].pc = "get_token"
    /\ api_pc' = [api_pc EXCEPT ![c] =
                     IF tenant_token # NoToken
                     THEN [@ EXCEPT !.pc = "send", !.token = tenant_token]
                     ELSE [@ EXCEPT !.pc = "fetch"]]
    /\ UNCHANGED <<tenant_token, server_token, seq_counter, api_sent,
                   api_calls, api_calls_left, expiries_left>>
    /\ UNCHANGED <<agentVars, patchVars, wsVars, feVars>>

\* api.rs:75-98 refresh_token: the token request fails and the error goes
\* to the caller of the API, or it returns the backend's token, which is
\* stored in the cache.
ApiFetch(c) ==
    /\ api_pc[c].pc = "fetch"
    /\ \/ /\ tenant_token' = server_token
          /\ api_pc' = [api_pc EXCEPT ![c] =
                           [@ EXCEPT !.pc = "send", !.token = server_token,
                                     !.fetched = Append(@, server_token)]]
          /\ UNCHANGED api_calls
       \/ /\ Finish(c, api_pc[c], "err")
          /\ UNCHANGED tenant_token
    /\ UNCHANGED <<server_token, seq_counter, api_sent, api_calls_left,
                   expiries_left>>
    /\ UNCHANGED <<agentVars, patchVars, wsVars, feVars>>

\* api.rs:463-496: the request is sent with the token held, a second time
\* after a refresh, and the response decides how the call goes on.  A
\* transport failure ends the call with the error.
ApiSend(c) ==
    /\ api_pc[c].pc = "send"
    /\ LET st == api_pc[c]
           attempt == Len(st.tokens) + 1
           req == [caller |-> c, id |-> st.id, op |-> st.op,
                   sequence |-> st.sequence, token |-> st.token,
                   attempt |-> attempt]
       IN /\ api_sent' = Append(api_sent, req)
          /\ \/ \E code \in ResponseCodes(st.token) :
                  LET st2 == [st EXCEPT !.codes = Append(@, code),
                                        !.tokens = Append(@, st.token)]
                  IN CASE RetryDecision(attempt, code) = "refresh" ->
                            /\ api_pc' = [api_pc EXCEPT ![c] =
                                             [st2 EXCEPT !.pc = "invalidate"]]
                            /\ UNCHANGED api_calls
                       [] RetryDecision(attempt, code) = "ok" ->
                            Finish(c, st2, "ok")
                       [] OTHER -> Finish(c, st2, "err")
             \/ Finish(c, [st EXCEPT !.tokens = Append(@, st.token)], "err")
    /\ UNCHANGED <<tenant_token, server_token, seq_counter, api_calls_left,
                   expiries_left>>
    /\ UNCHANGED <<agentVars, patchVars, wsVars, feVars>>

\* api.rs:70-73 invalidate_and_refresh: the cache is cleared, then the
\* token is requested again.
ApiInvalidate(c) ==
    /\ api_pc[c].pc = "invalidate"
    /\ tenant_token' = NoToken
    /\ api_pc' = [api_pc EXCEPT ![c] = [@ EXCEPT !.pc = "fetch",
                                                 !.invalidated = TRUE]]
    /\ UNCHANGED <<server_token, seq_counter, api_sent, api_calls,
                   api_calls_left, expiries_left>>
    /\ UNCHANGED <<agentVars, patchVars, wsVars, feVars>>

\* The backend's token expires: it accepts a new one from now on.
TokenExpires ==
    /\ expiries_left > 0
    /\ expiries_left' = expiries_left - 1
    /\ server_token' = server_token + 1
    /\ UNCHANGED <<tenant_token, seq_counter, api_pc, api_sent, api_calls,
                   api_calls_left>>
    /\ UNCHANGED <<agentVars, patchVars, wsVars, feVars>>

NextApi ==
    \/ \E c \in Callers : ApiBegin(c)
    \/ \E c \in Callers : ApiGetToken(c)
    \/ \E c \in Callers : ApiFetch(c)
    \/ \E c \in Callers : ApiSend(c)
    \/ \E c \in Callers : ApiInvalidate(c)
    \/ TokenExpires

SpecApi == Init /\ [][NextApi]_vars

\* ------------------------------------- frontend/feishu.rs: the main loop
\* protocol.rs:100-107.
is_terminal(status) == status \in {"Completed", "Failed", "Cancelled"}

UserMessage(text) == [type |-> "UserMessage", text |-> text]
FollowUp(text) == [type |-> "FollowUp", text |-> text]

CardReady(thread_id, msg_id, card_id) ==
    [type |-> "CardReady", thread_id |-> thread_id, msg_id |-> msg_id,
     card_id |-> card_id]

AgentOutput(thread_id, event) ==
    [type |-> "AgentOutput", thread_id |-> thread_id, event |-> event]

get_thread_Unregistered(registered, id) == NoThread

\* thread_manager.rs:57-59: the thread registered under the id, if any.
\* Nothing calls remove_thread, so the registry holds every thread created.
get_thread(registered, id) == IF id \in 1..registered THEN id ELSE NoThread

\* Mutant of update_card: a closed card is still written to.
update_card_WritesClosed(state) ==
    IF state.card_id = NoCard THEN NoCard ELSE state.card_id

\* feishu.rs:350-364: the card that update_card writes the buffer to, or
\* NoCard when it returns early.
update_card(state) ==
    IF state.card_id = NoCard \/ state.streaming_closed
    THEN NoCard
    ELSE state.card_id

\* feishu.rs:367-383: the state after finish_card and the card it closed.
finish_card(state, status) ==
    IF state.card_id = NoCard
    THEN [state |-> state, closed |-> NoCard]
    ELSE [state |-> [state EXCEPT !.streaming_closed = TRUE],
          closed |-> state.card_id]

\* feishu.rs:256-347: the render state after the event, whether a card
\* creation is spawned, the card updated and the card closed with its
\* status.
handle_agent_event(state, event) ==
    LET same == [state |-> state, spawn |-> FALSE, updated |-> NoCard,
                 closed |-> NoCard, status |-> ""]
    IN IF state = None THEN same
       ELSE IF event.type = "TextDelta"
       THEN [same EXCEPT !.state.text_buffer = Append(@, event.text)]
       ELSE IF event.type = "ContentBlockStop"
       THEN [same EXCEPT !.updated = update_card(state)]
       ELSE IF event.type = "StatusChange"
       THEN LET reset == event.status = "Working" /\ state.streaming_closed
                s1 == IF reset THEN NewRenderState ELSE state
                status_str == CASE event.status = "Failed" -> "failed"
                                [] event.status = "Cancelled" -> "cancelled"
                                [] OTHER -> "completed"
                f == IF is_terminal(event.status)
                     THEN finish_card(s1, status_str)
                     ELSE [state |-> s1, closed |-> NoCard]
            IN [state |-> f.state, spawn |-> reset, updated |-> NoCard,
                closed |-> f.closed, status |-> status_str]
       ELSE IF event.type = "Error"
       THEN LET s1 == [state EXCEPT !.text_buffer = Append(@, "Error")]
                f == finish_card(s1, "failed")
            IN [state |-> f.state, spawn |-> FALSE, updated |-> NoCard,
                closed |-> f.closed, status |-> "failed"]
       ELSE same

\* The events that end a turn of the agent (ai.rs:87-97).
EndsTurn(event) ==
    \/ event.type = "Error"
    \/ event.type = "StatusChange" /\ is_terminal(event.status)

\* How the turn ended: the terminal status, or "Error".
TurnEnd(event) ==
    IF event.type = "Error" THEN "Error" ELSE event.status

\* feishu.rs:79-141: a thread is created with its SQ, EQ and agent task,
\* the prompt is submitted, the render state inserted, and the card
\* creation and the poller are spawned.
OnNewMessage(evt) ==
    LET tid == threads + 1
    IN /\ threads' = tid
       /\ news_handled' = news_handled + 1
       /\ sqs' = [sqs EXCEPT ![tid] = <<UserMessage(evt.text)>>]
       /\ render_states' = [render_states EXCEPT ![tid] = NewRenderState]
       /\ card_tasks' = card_tasks \cup {[thread_id |-> tid, turn |-> 1]}
       /\ card_spawned' = card_spawned \cup {[thread_id |-> tid, turn |-> 1]}
       /\ UNCHANGED <<main_blocked, card_to_thread, fe_turns, turns_done,
                      card_closed, card_writes, expired_replies>>

\* feishu.rs:143-163: the reply goes to the thread its card is indexed to;
\* thread.submit waits while the SQ is full.  A reply to a card that is not
\* indexed is answered with the session-expired text.
OnReplyMessage(evt) ==
    LET tid == card_to_thread[evt.card_msg_id]
    IN /\ IF tid # NoThread
          THEN /\ IF get_thread(threads, tid) = NoThread
                  THEN UNCHANGED <<sqs, main_blocked>>
                  ELSE IF Len(sqs[tid]) < SQ_CAPACITY
                  THEN /\ sqs' = [sqs EXCEPT
                                    ![tid] = Append(@, FollowUp(evt.text))]
                       /\ UNCHANGED main_blocked
                  ELSE /\ main_blocked' = [thread_id |-> tid,
                                           sub |-> FollowUp(evt.text)]
                       /\ UNCHANGED sqs
               /\ UNCHANGED expired_replies
          ELSE /\ expired_replies' = Append(expired_replies, evt.card_msg_id)
               /\ UNCHANGED <<sqs, main_blocked>>
       /\ UNCHANGED <<threads, news_handled, render_states, card_tasks,
                      card_spawned, card_to_thread, fe_turns, turns_done,
                      card_closed, card_writes>>

\* feishu.rs:165-185: the card is recorded in the render state and in the
\* index, and a text buffered so far is written to it.
OnCardReady(evt) ==
    LET tid == evt.thread_id
        state == render_states[tid]
    IN /\ IF state # None
          THEN /\ render_states' =
                     [render_states EXCEPT
                        ![tid] = [state EXCEPT !.card_msg_id = evt.msg_id,
                                               !.card_id = evt.card_id]]
               /\ card_to_thread' =
                     [card_to_thread EXCEPT ![evt.msg_id] = tid]
               /\ card_writes' =
                     IF state.text_buffer # <<>>
                     THEN card_writes \cup
                            {[card |-> evt.card_id, turn |-> fe_turns[tid]]}
                     ELSE card_writes
          ELSE UNCHANGED <<render_states, card_to_thread, card_writes>>
       /\ UNCHANGED <<threads, news_handled, sqs, main_blocked, card_tasks,
                      card_spawned, fe_turns, turns_done, card_closed,
                      expired_replies>>

\* feishu.rs:187-196 with handle_agent_event, update_card and finish_card.
OnAgentOutput(evt) ==
    LET tid == evt.thread_id
        r == handle_agent_event(render_states[tid], evt.event)
        working == evt.event.type = "StatusChange"
                   /\ evt.event.status = "Working"
        turn == IF working THEN fe_turns[tid] + 1 ELSE fe_turns[tid]
    IN /\ render_states' = [render_states EXCEPT ![tid] = r.state]
       /\ fe_turns' = [fe_turns EXCEPT ![tid] = turn]
       /\ turns_done' = IF EndsTurn(evt.event)
                        THEN [turns_done EXCEPT
                                ![tid] = Append(@, TurnEnd(evt.event))]
                        ELSE turns_done
       /\ card_tasks' = IF r.spawn
                        THEN card_tasks \cup
                               {[thread_id |-> tid, turn |-> turn]}
                        ELSE card_tasks
       /\ card_spawned' = IF r.spawn
                          THEN card_spawned \cup
                                 {[thread_id |-> tid, turn |-> turn]}
                          ELSE card_spawned
       /\ card_writes' = IF r.updated # NoCard
                         THEN card_writes \cup
                                {[card |-> r.updated, turn |-> turn]}
                         ELSE card_writes
       /\ card_closed' = IF r.closed # NoCard
                         THEN card_closed \cup
                                {[card |-> r.closed, status |-> r.status,
                                  turn |-> turn]}
                         ELSE card_closed
       /\ UNCHANGED <<threads, news_handled, sqs, main_blocked,
                      card_to_thread, expired_replies>>

\* feishu.rs:77-198: the main loop takes the next event off the front-end
\* channel and handles it.
MainRecv ==
    /\ main_blocked = None
    /\ fe # <<>>
    /\ fe' = Tail(fe)
    /\ LET evt == Head(fe)
       IN CASE evt.type = "NewMessage" -> OnNewMessage(evt)
            [] evt.type = "ReplyMessage" -> OnReplyMessage(evt)
            [] evt.type = "CardReady" -> OnCardReady(evt)
            [] evt.type = "AgentOutput" -> OnAgentOutput(evt)
    /\ UNCHANGED <<eqs, agents, pollers, card_owner>>
    /\ UNCHANGED <<agentVars, patchVars, wsVars, apiVars>>

\* feishu.rs:147 and thread.rs:46-51: the submit that waited for a slot of
\* the SQ completes and the main loop goes on.
MainWake ==
    /\ main_blocked # None
    /\ Len(sqs[main_blocked.thread_id]) < SQ_CAPACITY
    /\ sqs' = [sqs EXCEPT ![main_blocked.thread_id] =
                              Append(@, main_blocked.sub)]
    /\ main_blocked' = None
    /\ UNCHANGED <<fe, threads, eqs, agents, pollers, render_states,
                   card_to_thread, card_tasks, card_owner, fe_turns,
                   turns_done, card_spawned, card_closed, card_writes,
                   expired_replies, news_handled>>
    /\ UNCHANGED <<agentVars, patchVars, wsVars, apiVars>>

\* ai.rs:77-82, claude.rs:37-47: the agent takes the next submission off
\* its SQ and starts a turn.
AgentRecv(t) ==
    /\ t <= threads
    /\ agents[t] = <<>>
    /\ sqs[t] # <<>>
    /\ sqs' = [sqs EXCEPT ![t] = Tail(@)]
    /\ \E turn \in AgentTurns : agents' = [agents EXCEPT ![t] = turn]
    /\ UNCHANGED <<fe, threads, eqs, pollers, main_blocked, render_states,
                   card_to_thread, card_tasks, card_owner, fe_turns,
                   turns_done, card_spawned, card_closed, card_writes,
                   expired_replies, news_handled>>
    /\ UNCHANGED <<agentVars, patchVars, wsVars, apiVars>>

\* ai.rs:338-340: emit sends the event on the EQ and waits while it is full.
AgentEmit(t) ==
    /\ agents[t] # <<>>
    /\ Len(eqs[t]) < EQ_CAPACITY
    /\ eqs' = [eqs EXCEPT ![t] = Append(@, Head(agents[t]))]
    /\ agents' = [agents EXCEPT ![t] = Tail(@)]
    /\ UNCHANGED <<fe, threads, sqs, pollers, main_blocked, render_states,
                   card_to_thread, card_tasks, card_owner, fe_turns,
                   turns_done, card_spawned, card_closed, card_writes,
                   expired_replies, news_handled>>
    /\ UNCHANGED <<agentVars, patchVars, wsVars, apiVars>>

\* feishu.rs:244: the poller of the thread takes the next event off the EQ.
PollerRecv(t) ==
    /\ t <= threads
    /\ pollers[t] = None
    /\ eqs[t] # <<>>
    /\ pollers' = [pollers EXCEPT ![t] = Head(eqs[t])]
    /\ eqs' = [eqs EXCEPT ![t] = Tail(@)]
    /\ UNCHANGED <<fe, threads, sqs, agents, main_blocked, render_states,
                   card_to_thread, card_tasks, card_owner, fe_turns,
                   turns_done, card_spawned, card_closed, card_writes,
                   expired_replies, news_handled>>
    /\ UNCHANGED <<agentVars, patchVars, wsVars, apiVars>>

\* feishu.rs:245-250: the poller sends the event on the front-end channel
\* and waits while that is full.
PollerSend(t) ==
    /\ pollers[t] # None
    /\ Len(fe) < FE_CAPACITY
    /\ fe' = Append(fe, AgentOutput(t, pollers[t]))
    /\ pollers' = [pollers EXCEPT ![t] = None]
    /\ UNCHANGED <<threads, sqs, eqs, agents, main_blocked, render_states,
                   card_to_thread, card_tasks, card_owner, fe_turns,
                   turns_done, card_spawned, card_closed, card_writes,
                   expired_replies, news_handled>>
    /\ UNCHANGED <<agentVars, patchVars, wsVars, apiVars>>

\* feishu.rs:124-137 and 312-325: a card-creation task ends.  Either
\* send_streaming_card gave the card and its message and CardReady is sent
\* on the front-end channel, or it failed and the error is logged.
CardTaskDone ==
    \E task \in card_tasks :
        /\ card_tasks' = card_tasks \ {task}
        /\ \/ /\ Len(card_owner) < MaxCards
              /\ Len(fe) < FE_CAPACITY
              /\ card_owner' =
                    Append(card_owner,
                           [thread_id |-> task.thread_id,
                            turn |-> task.turn, epoch |-> ws_epoch])
              /\ fe' = Append(fe, CardReady(task.thread_id,
                                            CardMsgIds[Len(card_owner) + 1],
                                            Len(card_owner) + 1))
           \/ UNCHANGED <<card_owner, fe>>
        /\ UNCHANGED <<threads, sqs, eqs, agents, pollers, main_blocked,
                       render_states, card_to_thread, fe_turns, turns_done,
                       card_spawned, card_closed, card_writes,
                       expired_replies, news_handled>>
        /\ UNCHANGED <<agentVars, patchVars, wsVars, apiVars>>

\* The frames of the chat users: a message that starts a thread, while
\* the run has threads left, and the replies to the cards.
NewsReceived ==
    Cardinality({i \in 1..Len(ws_recv) : ws_recv[i].frame.payload = NewDoc})

FeishuFrames(id) ==
    {f \in EventFrames(id) : f.payload = NewDoc => NewsReceived < MaxThreads}

\* The tasks behind the front-end channel: the listener, the main loop,
\* the agents, the pollers and the card creations.
FrontEndStep ==
    \/ BridgeForward
    \/ MainRecv
    \/ MainWake
    \/ \E t \in ThreadIds : AgentRecv(t)
    \/ \E t \in ThreadIds : AgentEmit(t)
    \/ \E t \in ThreadIds : PollerRecv(t)
    \/ \E t \in ThreadIds : PollerSend(t)
    \/ CardTaskDone

\* The front-end on a connection that stays up.
NextFeishu ==
    \/ WsDiscover
    \/ WsSleep
    \/ RecvFrame(FeishuFrames(MaxFrames - ws_frames_left + 1))
    \/ FrontEndStep

SpecFeishu == Init /\ [][NextFeishu]_vars

\* A chat across reconnects: a message that starts a thread, a reply to
\* the first card, and a message that starts another thread, and so on.
ReconnectFrames(id) ==
    {f \in FeishuFrames(id) :
        f.payload = IF id % 2 = 0 THEN ReplyDoc(CardMsgIds[1]) ELSE NewDoc}

\* The front-end on a connection that drops at any time.
NextReconnect ==
    \/ WsDiscover
    \/ WsSleep
    \/ WsDisconnect
    \/ RecvFrame(ReconnectFrames(MaxFrames - ws_frames_left + 1))
    \/ FrontEndStep

SpecReconnect == Init /\ [][NextReconnect]_vars

\* feishu.rs:124-126: send_streaming_card of a card-creation task has
\* returned: the card message is in the chat, and the task has yet to send
\* CardReady.
CardCreated ==
    \E task \in card_tasks :
        /\ "card" \notin DOMAIN task
        /\ Len(card_owner) < MaxCards
        /\ card_owner' = Append(card_owner,
                                [thread_id |-> task.thread_id,
                                 turn |-> task.turn, epoch |-> ws_epoch])
        /\ card_tasks' = (card_tasks \ {task})
              \cup {[thread_id |-> task.thread_id, turn |-> task.turn,
                     card |-> Len(card_owner) + 1]}
        /\ UNCHANGED <<fe, threads, sqs, eqs, agents, pollers, main_blocked,
                       render_states, card_to_thread, fe_turns, turns_done,
                       card_spawned, card_closed, card_writes,
                       expired_replies, news_handled>>
        /\ UNCHANGED <<agentVars, patchVars, wsVars, apiVars>>

\* feishu.rs:135: send_streaming_card failed; the error is logged.
CardFailed ==
    \E task \in card_tasks :
        /\ "card" \notin DOMAIN task
        /\ card_tasks' = card_tasks \ {task}
        /\ UNCHANGED <<fe, threads, sqs, eqs, agents, pollers, main_blocked,
                       render_states, card_to_thread, card_owner, fe_turns,
                       turns_done, card_spawned, card_closed, card_writes,
                       expired_replies, news_handled>>
        /\ UNCHANGED <<agentVars, patchVars, wsVars, apiVars>>

\* feishu.rs:127-133: the task sends CardReady on the front-end channel;
\* the send waits while the channel is full.
CardReadySent ==
    \E task \in card_tasks :
        /\ "card" \in DOMAIN task
        /\ Len(fe) < FE_CAPACITY
        /\ fe' = Append(fe, CardReady(task.thread_id, CardMsgIds[task.card],
                                      task.card))
        /\ card_tasks' = card_tasks \ {task}
        /\ UNCHANGED <<threads, sqs, eqs, agents, pollers, main_blocked,
                       render_states, card_to_thread, card_owner, fe_turns,
                       turns_done, card_spawned, card_closed, card_writes,
                       expired_replies, news_handled>>
        /\ UNCHANGED <<agentVars, patchVars, wsVars, apiVars>>

\* The frames of chat users who reply only to the card messages that are
\* in the chat.
ReplyFrames(id) ==
    {f \in FeishuFrames(id) :
        \/ f.payload = NewDoc
        \/ \E k \in 1..Len(card_owner) : f.payload = ReplyDoc(CardMsgIds[k])}

\* The front-end with the card creation in its steps: the card message is
\* in the chat before the task sends CardReady.
NextReply ==
    \/ WsDiscover
    \/ WsSleep
    \/ RecvFrame(ReplyFrames(MaxFrames - ws_frames_left + 1))
    \/ BridgeForward
    \/ MainRecv
    \/ MainWake
    \/ \E t \in ThreadIds : AgentRecv(t)
    \/ \E t \in ThreadIds : AgentEmit(t)
    \/ \E t \in ThreadIds : PollerRecv(t)
    \/ \E t \in ThreadIds : PollerSend(t)
    \/ CardCreated
    \/ CardFailed
    \/ CardReadySent

SpecReply == Init /\ [][NextReply]_vars

\* ---------------------------------- transport/feishu/mod.rs: card updates
\* A sequenced CardKit request for a card; streaming_mode is the value in
\* the card or the settings it carries.
CardOp(op, card, streaming_mode) ==
    [op |-> op, card |-> card, streaming_mode |-> streaming_mode]

\* mod.rs:107-135 update_card_content: one full-card update
\* (api.update_card) that keeps streaming_mode on.
update_card_content(card) == <<CardOp("update_card", card, TRUE)>>

\* mod.rs:137-187 FeishuTransport::finish_card: update_card_settings is
\* awaited, then update_card with the final card; a failure of either is
\* logged and the other is still made.
transport_finish_card(card) ==
    <<CardOp("update_card_settings", card, FALSE),
      CardOp("update_card", card, FALSE)>>

\* The requests the main loop makes while it handles the event, in order:
\* the flush of CardReady (feishu.rs:175-183), update_card and finish_card
\* (feishu.rs:350-383).
TransportOps(evt) ==
    IF evt.type = "CardReady"
    THEN IF render_states[evt.thread_id] # None
            /\ render_states[evt.thread_id].text_buffer # <<>>
         THEN update_card_content(evt.card_id)
         ELSE <<>>
    ELSE IF evt.type = "AgentOutput"
    THEN The({(IF r.updated # NoCard THEN update_card_content(r.updated)
               ELSE <<>>)
              \o (IF r.closed # NoCard THEN transport_finish_card(r.closed)
                  ELSE <<>>) :
                r \in {handle_agent_event(render_states[evt.thread_id],
                                          evt.event)}})
    ELSE <<>>

\* api.rs:517-529 and 558-570: each request takes next_seq() when its body
\* is built, and the requests are made one after the other.
WithSequence(ops, seq) ==
    [k \in DOMAIN ops |->
        [caller |-> "main", op |-> ops[k].op, card |-> ops[k].card,
         streaming_mode |-> ops[k].streaming_mode,
         sequence |-> seq + k - 1]]

\* feishu.rs:77-198: the main loop handles the next event and makes the
\* card requests of the handler.
MainRecvCard ==
    /\ main_blocked = None
    /\ fe # <<>>
    /\ fe' = Tail(fe)
    /\ LET evt == Head(fe)
       IN CASE evt.type = "NewMessage" -> OnNewMessage(evt)
            [] evt.type = "ReplyMessage" -> OnReplyMessage(evt)
            [] evt.type = "CardReady" -> OnCardReady(evt)
            [] evt.type = "AgentOutput" -> OnAgentOutput(evt)
    /\ \E ops \in {TransportOps(Head(fe))} :
          /\ api_sent' = api_sent \o WithSequence(ops, seq_counter)
          /\ seq_counter' = seq_counter + Len(ops)
    /\ UNCHANGED <<eqs, agents, pollers, card_owner>>
    /\ UNCHANGED <<tenant_token, server_token, api_pc, api_calls,
                   api_calls_left, expiries_left>>
    /\ UNCHANGED <<agentVars, patchVars, wsVars>>

\* The turns of the agents behind the cards: those of AgentTurns, and a
\* turn of the Claude agent in which an error result is followed by more
\* output and a clean exit (claude.rs:301-304 and 49-55).
CardTurns ==
    AgentTurns
    \cup {<<StatusChange("Working"), ErrorEvent("err"), TextDelta,
            ContentBlockStop, StatusChange("Completed")>>}

\* ai.rs:77-82, claude.rs:37-47: the agent starts a turn.
CardAgentRecv(t) ==
    /\ t <= threads
    /\ agents[t] = <<>>
    /\ sqs[t] # <<>>
    /\ sqs' = [sqs EXCEPT ![t] = Tail(@)]
    /\ \E turn \in CardTurns : agents' = [agents EXCEPT ![t] = turn]
    /\ UNCHANGED <<fe, threads, eqs, pollers, main_blocked, render_states,
                   card_to_thread, card_tasks, card_owner, fe_turns,
                   turns_done, card_spawned, card_closed, card_writes,
                   expired_replies, news_handled>>
    /\ UNCHANGED <<agentVars, patchVars, wsVars, apiVars>>

\* One chat: a message that starts the thread, then replies to its cards.
CardFrames(id) ==
    {f \in EventFrames(id) :
        f.payload = IF id = 1 THEN NewDoc
                    ELSE ReplyDoc(CardMsgIds[IF Len(card_owner) >= 2
                                             THEN 2 ELSE 1])}

NextCard ==
    \/ WsDiscover
    \/ WsSleep
    \/ RecvFrame(CardFrames(MaxFrames - ws_frames_left + 1))
    \/ BridgeForward
    \/ MainRecvCard
    \/ MainWake
    \/ \E t \in ThreadIds : CardAgentRecv(t)
    \/ \E t \in ThreadIds : AgentEmit(t)
    \/ \E t \in ThreadIds : PollerRecv(t)
    \/ \E t \in ThreadIds : PollerSend(t)
    \/ CardTaskDone

SpecCard == Init /\ [][NextCard]_vars

\* ------------------------------------------------- tools/apply_patch.rs
\* A line is the sequence of its characters; a character is named by
\* itself or by its code point.
NBSP == "U+00A0"
EN_DASH == "U+2013"

Some(i) == [type |-> "Some", v |-> i]

\* char::is_whitespace: the characters str::trim and trim_end strip.
is_whitespace(c) == c \in {" ", NBSP}

RECURSIVE trim_end(_)
trim_end(s) ==
    IF s # <<>> /\ is_whitespace(s[Len(s)])
    THEN trim_end(SubSeq(s, 1, Len(s) - 1))
    ELSE s

RECURSIVE trim_start(_)
trim_start(s) ==
    IF s # <<>> /\ is_whitespace(s[1]) THEN trim_start(Tail(s)) ELSE s

trim(s) == trim_start(trim_end(s))

\* apply_patch.rs:374-392 normalise: trim, then dashes to '-' and odd
\* spaces to ' ' (of the code points listed there the model has U+2013 and
\* U+00A0).
normalise(s) ==
    LET t == trim(s)
    IN [k \in DOMAIN t |-> IF t[k] = EN_DASH THEN "-"
                           ELSE IF t[k] = NBSP THEN " "
                           ELSE t[k]]

\* apply_patch.rs:343, 351, 364, 397: the comparison of a file line with a
\* pattern line at each of the four levels.
LineEq(level, line, pat) ==
    IF level = 1 THEN line = pat
    ELSE IF level = 2 THEN trim_end(line) = trim_end(pat)
    ELSE IF level = 3 THEN trim(line) = trim(pat)
    ELSE normalise(line) = normalise(pat)

Least(S) == CHOOSE i \in S : \A j \in S : i <= j

\* Mutant of seek_sequence: the four comparisons are tried position by
\* position, the first position that matches at any level is returned.
seek_sequence_PositionFirst(lines, pattern, start, eof) ==
    IF pattern = <<>> THEN Some(start)
    ELSE IF Len(pattern) > Len(lines) THEN None
    ELSE LET last == Len(lines) - Len(pattern)
             search_start == IF eof /\ Len(lines) >= Len(pattern)
                             THEN last ELSE start
             hits == {i \in search_start..last :
                        \E level \in 1..4 : \A p \in 1..Len(pattern) :
                            LineEq(level, lines[i + p], pattern[p])}
         IN IF hits # {} THEN Some(Least(hits)) ELSE None

\* apply_patch.rs:322-408 seek_sequence.  Indices count from 0 as in the
\* code; lines[i + p] is the line at index i + p - 1.  Each of the four
\* loops runs over search_start..=len-|pattern| and returns the first hit.
seek_sequence(lines, pattern, start, eof) ==
    IF pattern = <<>> THEN Some(start)
    ELSE IF Len(pattern) > Len(lines) THEN None
    ELSE LET last == Len(lines) - Len(pattern)
             search_start == IF eof /\ Len(lines) >= Len(pattern)
                             THEN last ELSE start
             hits(level) == {i \in search_start..last :
                               \A p \in 1..Len(pattern) :
                                   LineEq(level, lines[i + p], pattern[p])}
         IN IF hits(1) # {} THEN Some(Least(hits(1)))
            ELSE IF hits(2) # {} THEN Some(Least(hits(2)))
            ELSE IF hits(3) # {} THEN Some(Least(hits(3)))
            ELSE IF hits(4) # {} THEN Some(Least(hits(4)))
            ELSE None

\* The lines of the seek_sequence calls: pairs that differ in trailing
\* blanks, in leading blanks and in the kind of dash only.
SeekLines ==
    {<<"x">>, <<"x", " ">>, <<" ", "x">>, <<"-">>, <<EN_DASH>>, <<>>}

SeqsUpTo(S, n) == UNION {[1..k -> S] : k \in 0..n}

\* A call of seek_sequence on any file of up to MaxSeekLines lines with any
\* pattern of up to MaxPattern lines; start is a cursor of
\* compute_replacements, which is at most the number of lines.
SeekInit ==
    \E lines \in SeqsUpTo(SeekLines, MaxSeekLines),
       pattern \in SeqsUpTo(SeekLines, MaxPattern),
       eof \in BOOLEAN :
      \E start \in 0..Len(lines) :
        seek_call = [type |-> "Seek", lines |-> lines, pattern |-> pattern,
                     start |-> start, eof |-> eof, result |-> NoSeek]

InitSeek ==
    /\ InitWith(MaxSubs, MaxWire, MaxRequests)
    /\ WsInit(MaxFrames)
    /\ FeInit
    /\ ApiInit(MaxApiCalls, MaxExpiries)
    /\ fs = [p \in Paths |-> None]
    /\ todo = <<>>
    /\ patch_pc = "idle"
    /\ hunks = <<>>
    /\ hunk_no = 0
    /\ fs_trail = <<>>
    /\ patch_log = <<>>
    /\ SeekInit
    /\ patch_input = NoInput

\* The call is made and returns.
Seek ==
    /\ seek_call # NoSeek
    /\ seek_call.result = NoSeek
    /\ seek_call' = [seek_call EXCEPT
                       !.result = seek_sequence(seek_call.lines,
                                                seek_call.pattern,
                                                seek_call.start,
                                                seek_call.eof)]
    /\ UNCHANGED <<fs, todo, patch_pc, hunks, hunk_no, fs_trail, patch_log,
                   patch_input>>
    /\ UNCHANGED <<agentVars, wsVars, feVars, apiVars>>

NextSeek == Seek

SpecSeek == InitSeek /\ [][NextSeek]_vars

\* apply_patch.rs:6-21: the hunks and the chunks of an update.  A context
\* and a move_to are None or Some(value).
AddFile(path, contents) ==
    [type |-> "AddFile", path |-> path, contents |-> contents]
DeleteFile(path) == [type |-> "DeleteFile", path |-> path]
UpdateFile(path, move_to, chunks) ==
    [type |-> "UpdateFile", path |-> path, move_to |-> move_to,
     chunks |-> chunks]
UpdateChunk(context, old_lines, new_lines, is_end_of_file) ==
    [context |-> context, old_lines |-> old_lines, new_lines |-> new_lines,
     is_end_of_file |-> is_end_of_file]

\* The content of a file: the pieces that content.split('\n') gives, which
\* determine the bytes (join("\n") is the inverse).  A content that ends
\* with a newline has an empty last piece.
File(pieces) == [type |-> "file", pieces |-> pieces]

Last(s) == s[Len(s)]
Front(s) == SubSeq(s, 1, Len(s) - 1)
is_empty_last(s) == s # <<>> /\ Last(s) = <<>>

\* apply_patch.rs:288 sort_by on the start index (a stable sort).
RECURSIVE SortByStart(_)
SortByStart(reps) ==
    IF reps = <<>> THEN <<>>
    ELSE LET r == Last(reps)
             sorted == SortByStart(Front(reps))
             before == SelectSeq(sorted, LAMBDA x : x.start <= r.start)
             after == SelectSeq(sorted, LAMBDA x : x.start > r.start)
         IN before \o <<r>> \o after

Replacement(start, old_len, new_segment) ==
    [start |-> start, old_len |-> old_len, new_segment |-> new_segment]

\* apply_patch.rs:232-247: the cursor just past the context line of the
\* chunk, the cursor itself when the chunk has no context, or None when the
\* context is not found.
FindContext(original_lines, chunk, line_index) ==
    IF chunk.context = None THEN Some(line_index)
    ELSE The({IF idx = None THEN None ELSE Some(idx.v + 1) :
                idx \in {seek_sequence(original_lines, <<chunk.context.v>>,
                                       line_index, FALSE)}})

\* apply_patch.rs:267-273: the old lines were not found and end with an
\* empty line: they are sought again without it, the new lines losing
\* their empty last line likewise.
RetryWithoutLast(original_lines, chunk, line_index) ==
    The({IF found = None THEN None
         ELSE Some(Replacement(found.v, Len(chunk.old_lines) - 1,
                               IF is_empty_last(chunk.new_lines)
                               THEN Front(chunk.new_lines)
                               ELSE chunk.new_lines)) :
           found \in {seek_sequence(original_lines, Front(chunk.old_lines),
                                    line_index, chunk.is_end_of_file)}})

\* apply_patch.rs:261-277: the old lines are sought from the cursor, and
\* once more when the retry of line 267 applies.
FindOldLines(original_lines, chunk, line_index) ==
    The({IF first # None
         THEN Some(Replacement(first.v, Len(chunk.old_lines),
                               chunk.new_lines))
         ELSE IF is_empty_last(chunk.old_lines)
         THEN RetryWithoutLast(original_lines, chunk, line_index)
         ELSE None :
           first \in {seek_sequence(original_lines, chunk.old_lines,
                                    line_index, chunk.is_end_of_file)}})

\* apply_patch.rs:249-285: the replacement of a chunk with the cursor past
\* its context: an insertion at the end of the file when the chunk has no
\* old lines, None for the bail of line 280.
ChunkReplacement(original_lines, chunk, line_index) ==
    IF chunk.old_lines = <<>>
    THEN Some(Replacement(IF is_empty_last(original_lines)
                          THEN Len(original_lines) - 1
                          ELSE Len(original_lines),
                          0, chunk.new_lines))
    ELSE FindOldLines(original_lines, chunk, line_index)

\* apply_patch.rs:257 and 277: the cursor after a chunk: past its context
\* when it has no old lines, past the lines it replaces otherwise.
CursorAfter(chunk, ctx, rep) ==
    IF chunk.old_lines = <<>> THEN ctx ELSE rep.start + rep.old_len

\* apply_patch.rs:230-288: the loop over the chunks from the cursor
\* line_index with the replacements found so far; the result is the
\* sorted replacements, or None for the bail of lines 241 and 280.
RECURSIVE ReplacementsFrom(_, _, _, _)
ReplacementsFrom(original_lines, chunks, line_index, replacements) ==
    IF chunks = <<>> THEN Some(SortByStart(replacements))
    ELSE The({
        IF ctx = None THEN None
        ELSE The({
            IF rep = None THEN None
            ELSE The({ReplacementsFrom(original_lines, Tail(chunks), cursor,
                                       reps) :
                        cursor \in {CursorAfter(Head(chunks), ctx.v, rep.v)},
                        reps \in {Append(replacements, rep.v)}}) :
              rep \in {ChunkReplacement(original_lines, Head(chunks),
                                        ctx.v)}}) :
          ctx \in {FindContext(original_lines, Head(chunks), line_index)}})

\* apply_patch.rs:222-290 compute_replacements.
compute_replacements(original_lines, chunks) ==
    ReplacementsFrom(original_lines, chunks, 0, <<>>)

\* apply_patch.rs:297-311: one replacement: up to old_len lines are removed
\* at start (while start is inside the lines), then the new lines are
\* inserted there.  start never exceeds the length: the replacements are
\* applied from the highest start down and change nothing before their
\* start.
Replace(lines, rep) ==
    LET avail == IF rep.start < Len(lines) THEN Len(lines) - rep.start ELSE 0
        gone == IF rep.old_len < avail THEN rep.old_len ELSE avail
    IN SubSeq(lines, 1, rep.start) \o rep.new_segment
         \o SubSeq(lines, rep.start + gone + 1, Len(lines))

\* apply_patch.rs:293-315 apply_replacements: in reverse order.
RECURSIVE apply_replacements(_, _)
apply_replacements(lines, replacements) ==
    IF replacements = <<>> THEN lines
    ELSE The({apply_replacements(replaced, Front(replacements)) :
                replaced \in {Replace(lines, Last(replacements))}})

\* apply_patch.rs:186-188: the last piece is dropped when it is empty.
WithoutEmptyLast(pieces) ==
    IF is_empty_last(pieces) THEN Front(pieces) ELSE pieces

\* apply_patch.rs:194-196: an empty last piece is added unless there is one.
WithEmptyLast(lines) ==
    IF is_empty_last(lines) THEN lines ELSE Append(lines, <<>>)

\* apply_patch.rs:177-197: the new content of a file under the chunks of
\* an update, or None when a chunk is not found.
UpdatedContent(content, chunks) ==
    The({The({IF replacements = None THEN None
              ELSE The({File(WithEmptyLast(new_lines)) :
                          new_lines \in {apply_replacements(file_lines,
                                                            replacements.v)}}) :
                replacements \in {compute_replacements(file_lines, chunks)}}) :
          file_lines \in {WithoutEmptyLast(content.pieces)}})

\* apply_patch.rs:199-213: the files after the new content is written: to
\* the file itself, or to the destination of the move, the file removed.
Written(files, hunk, new_content) ==
    IF hunk.move_to = None
    THEN [files EXCEPT ![hunk.path] = new_content]
    ELSE [[files EXCEPT ![hunk.move_to.v] = new_content]
             EXCEPT ![hunk.path] = None]

\* Mutant of apply_hunk: an update writes the file after each chunk, so
\* the chunks before the one that is not found stay applied.
apply_hunk_WritesChunkByChunk(hunk, files) ==
    IF hunk.type = "AddFile"
    THEN [ok |-> TRUE,
          fs |-> [files EXCEPT ![hunk.path] = File(hunk.contents)]]
    ELSE IF hunk.type = "DeleteFile"
    THEN IF files[hunk.path] = None THEN [ok |-> FALSE, fs |-> files]
         ELSE [ok |-> TRUE, fs |-> [files EXCEPT ![hunk.path] = None]]
    ELSE IF files[hunk.path] = None THEN [ok |-> FALSE, fs |-> files]
    ELSE The({IF new_content # None
              THEN [ok |-> TRUE, fs |-> Written(files, hunk, new_content)]
              ELSE The({IF first = None THEN [ok |-> FALSE, fs |-> files]
                        ELSE [ok |-> FALSE,
                              fs |-> [files EXCEPT ![hunk.path] = first]] :
                          first \in {UpdatedContent(files[hunk.path],
                                                    <<Head(hunk.chunks)>>)}}) :
                new_content \in {UpdatedContent(files[hunk.path],
                                                hunk.chunks)}})

\* apply_patch.rs:157-215: one iteration of the loop of apply_hunks: the
\* files after the hunk, and whether the hunk succeeded.  A hunk fails when
\* the file to delete or to update is not there (lines 168, 178) or when a
\* chunk is not found (line 190); a failed hunk has written nothing.
apply_hunk(hunk, files) ==
    IF hunk.type = "AddFile"
    THEN [ok |-> TRUE,
          fs |-> [files EXCEPT ![hunk.path] = File(hunk.contents)]]
    ELSE IF hunk.type = "DeleteFile"
    THEN IF files[hunk.path] = None THEN [ok |-> FALSE, fs |-> files]
         ELSE [ok |-> TRUE, fs |-> [files EXCEPT ![hunk.path] = None]]
    ELSE IF files[hunk.path] = None THEN [ok |-> FALSE, fs |-> files]
    ELSE The({IF new_content = None THEN [ok |-> FALSE, fs |-> files]
              ELSE [ok |-> TRUE, fs |-> Written(files, hunk, new_content)] :
                new_content \in {UpdatedContent(files[hunk.path],
                                                hunk.chunks)}})

\* The lines of the files and of the patches.
LineFoo == <<"f", "o", "o">>
LineBar == <<"b", "a", "r">>
LineBarBlanks == <<"b", "a", "r", " ", " ">>
LineBaz == <<"b", "a", "z">>
LineBAR == <<"B", "A", "R">>

\* The chunks of the patches: replacements, an insertion, a deletion, and
\* a chunk whose old lines end with an empty line; each with and without
\* the context "bar"; two of them marked End of File.
PatchChunks ==
    {UpdateChunk(ctx, c[1], c[2], FALSE) :
        ctx \in {None, Some(LineBar)},
        c \in {<<<<LineBar>>, <<LineBAR>>>>,
               <<<<LineBAR>>, <<LineBar>>>>,
               <<<<LineBaz>>, <<LineBaz, LineFoo>>>>,
               <<<<>>, <<LineFoo>>>>,
               <<<<LineFoo>>, <<>>>>,
               <<<<LineBaz, <<>>>>, <<LineBAR, <<>>>>>>}}
    \cup {UpdateChunk(None, <<LineBaz>>, <<LineBAR>>, TRUE),
          UpdateChunk(None, <<LineFoo>>, <<LineBAR>>, TRUE)}

\* The hunks of the patches: updates of f by one chunk, three updates by
\* two chunks, updates that move f to g, an update that moves f to f
\* itself, an update whose second chunk is marked End of File, an update
\* of g, and the addition and the deletions of files.
PatchHunks ==
    {UpdateFile("f", None, <<c>>) : c \in PatchChunks}
    \cup {UpdateFile("f", None, <<c, d>>) :
            c \in {UpdateChunk(None, <<LineFoo>>, <<LineFoo, LineFoo>>, FALSE)},
            d \in {UpdateChunk(None, <<LineBaz>>, <<LineBAR>>, FALSE),
                   UpdateChunk(None, <<>>, <<LineBar>>, FALSE),
                   UpdateChunk(None, <<LineFoo>>, <<LineBAR>>, FALSE)}}
    \cup {UpdateFile("f", Some("g"), <<c>>) :
            c \in {UpdateChunk(None, <<LineBar>>, <<LineBAR>>, FALSE),
                   UpdateChunk(None, <<LineBaz>>, <<LineBAR>>, TRUE)}}
    \cup {UpdateFile("f", Some("f"),
                     <<UpdateChunk(None, <<LineBar>>, <<LineBAR>>, FALSE)>>)}
    \cup {UpdateFile("f", None,
                     <<UpdateChunk(None, <<LineBaz>>, <<LineBaz, LineFoo>>,
                                   FALSE),
                       UpdateChunk(None, <<LineBaz>>, <<LineBAR>>, TRUE)>>)}
    \cup {UpdateFile("g", None,
                     <<UpdateChunk(None, <<LineBAR>>, <<LineBar>>, FALSE)>>),
          AddFile("g", <<LineBAR>>), DeleteFile("f"), DeleteFile("g")}

\* apply_patch.rs:145-148: a patch that parses has at least one hunk.
Patches == SeqsUpTo(PatchHunks, MaxHunks) \ {<<>>}

\* The update with the old and the new lines of every chunk exchanged.
Inverse(hunk) ==
    [hunk EXCEPT !.chunks =
        [k \in DOMAIN hunk.chunks |->
            UpdateChunk(hunk.chunks[k].context, hunk.chunks[k].new_lines,
                        hunk.chunks[k].old_lines,
                        hunk.chunks[k].is_end_of_file)]]

\* The calls of a run: one patch, or an update of f by one patch and its
\* inverse by the next.
PatchRuns ==
    {<<p>> : p \in Patches}
    \cup {<<<<h>>, <<Inverse(h)>>>> :
            h \in {x \in PatchHunks : x.type = "UpdateFile" /\ x.path = "f"
                                        /\ x.move_to = None}}

\* The contents of f when the run begins: with and without a final
\* newline, and with an empty last line.
FileContents ==
    {File(<<LineFoo, LineBarBlanks, LineBaz, <<>>>>),
     File(<<LineFoo, LineBarBlanks, LineBaz>>),
     File(<<LineFoo, LineBar, LineBaz, <<>>>>),
     File(<<LineBar, <<>>>>),
     File(<<LineBar>>),
     File(<<LineBar, <<>>, <<>>>>),
     File(<<LineBAR, LineBar, <<>>>>)}

InitPatch ==
    /\ InitWith(MaxSubs, MaxWire, MaxRequests)
    /\ WsInit(MaxFrames)
    /\ FeInit
    /\ ApiInit(MaxApiCalls, MaxExpiries)
    /\ fs \in {[p \in Paths |-> IF p = "f" THEN f ELSE g] :
                 f \in FileContents \cup {None},
                 g \in {None, File(<<LineBAR, <<>>>>)}}
    /\ todo \in PatchRuns
    /\ patch_pc = "idle"
    /\ hunks = <<>>
    /\ hunk_no = 0
    /\ fs_trail = <<>>
    /\ patch_log = <<>>
    /\ seek_call = NoSeek
    /\ patch_input = NoInput

\* apply_patch.rs:24-26 execute: the patch is parsed and apply_hunks begins.
Execute ==
    /\ patch_pc = "idle"
    /\ todo # <<>>
    /\ hunks' = Head(todo)
    /\ todo' = Tail(todo)
    /\ hunk_no' = 0
    /\ fs_trail' = <<fs>>
    /\ patch_pc' = "apply"
    /\ UNCHANGED <<fs, patch_log, seek_call, patch_input>>
    /\ UNCHANGED <<agentVars, wsVars, feVars, apiVars>>

LogEntry(ok, failed_at, after) ==
    [hunks |-> hunks, trail |-> fs_trail, ok |-> ok,
     failed_at |-> failed_at, after |-> after]

\* Mutant of ApplyHunk: a hunk that fails puts the files back as they were
\* when the call began.
ApplyHunk_RollsBack ==
    /\ patch_pc = "apply"
    /\ hunk_no < Len(hunks)
    /\ \E r \in {apply_hunk(hunks[hunk_no + 1], fs)} :
          IF r.ok
          THEN /\ fs' = r.fs
               /\ hunk_no' = hunk_no + 1
               /\ fs_trail' = Append(fs_trail, r.fs)
               /\ UNCHANGED <<patch_pc, patch_log>>
          ELSE /\ fs' = fs_trail[1]
               /\ patch_pc' = "idle"
               /\ patch_log' = Append(patch_log,
                                      LogEntry(FALSE, hunk_no + 1, fs_trail[1]))
               /\ UNCHANGED <<hunk_no, fs_trail>>
    /\ UNCHANGED <<todo, hunks, seek_call, patch_input>>
    /\ UNCHANGED <<agentVars, wsVars, feVars, apiVars>>

\* apply_patch.rs:156-216: the next hunk of the patch is applied; when it
\* fails the ? returns the error from apply_hunks and the files stay as the
\* hunks before it left them.
ApplyHunk ==
    /\ patch_pc = "apply"
    /\ hunk_no < Len(hunks)
    /\ \E r \in {apply_hunk(hunks[hunk_no + 1], fs)} :
          IF r.ok
          THEN /\ fs' = r.fs
               /\ hunk_no' = hunk_no + 1
               /\ fs_trail' = Append(fs_trail, r.fs)
               /\ UNCHANGED <<patch_pc, patch_log>>
          ELSE /\ fs' = r.fs
               /\ patch_pc' = "idle"
               /\ patch_log' = Append(patch_log,
                                      LogEntry(FALSE, hunk_no + 1, r.fs))
               /\ UNCHANGED <<hunk_no, fs_trail>>
    /\ UNCHANGED <<todo, hunks, seek_call, patch_input>>
    /\ UNCHANGED <<agentVars, wsVars, feVars, apiVars>>

\* apply_patch.rs:218: every hunk is applied, the summary is returned.
PatchReturns ==
    /\ patch_pc = "apply"
    /\ hunk_no = Len(hunks)
    /\ patch_pc' = "idle"
    /\ patch_log' = Append(patch_log, LogEntry(TRUE, 0, fs))
    /\ UNCHANGED <<fs, todo, hunks, hunk_no, fs_trail, seek_call, patch_input>>
    /\ UNCHANGED <<agentVars, wsVars, feVars, apiVars>>

NextPatch ==
    \/ Execute
    \/ ApplyHunk
    \/ PatchReturns

SpecPatch == InitPatch /\ [][NextPatch]_vars

\* ------------------------------------------- tools/apply_patch.rs: the parser
\* The marker lines of the patch format, as their characters.
BEGIN_PATCH == <<"*", "*", "*", " ", "B", "e", "g", "i", "n", " ", "P", "a", "t", "c", "h">>
END_PATCH == <<"*", "*", "*", " ", "E", "n", "d", " ", "P", "a", "t", "c", "h">>
ADD_FILE == <<"*", "*", "*", " ", "A", "d", "d", " ", "F", "i", "l", "e", ":", " ">>
DELETE_FILE == <<"*", "*", "*", " ", "D", "e", "l", "e", "t", "e", " ", "F", "i", "l", "e", ":", " ">>
UPDATE_FILE == <<"*", "*", "*", " ", "U", "p", "d", "a", "t", "e", " ", "F", "i", "l", "e", ":", " ">>
MOVE_TO == <<"*", "*", "*", " ", "M", "o", "v", "e", " ", "t", "o", ":", " ">>
END_OF_FILE == <<"*", "*", "*", " ", "E", "n", "d", " ", "o", "f", " ", "F", "i", "l", "e">>
STARS == <<"*", "*", "*", " ">>
AT_AT == <<"@", "@">>

\* str::starts_with and str::strip_prefix (None when the prefix is not there).
starts_with(l, prefix) ==
    Len(l) >= Len(prefix) /\ SubSeq(l, 1, Len(prefix)) = prefix

strip_prefix(l, prefix) ==
    IF starts_with(l, prefix)
    THEN Some(SubSeq(l, Len(prefix) + 1, Len(l)))
    ELSE None

\* resolve_path (apply_patch.rs:410-416) on the trimmed path of a header:
\* the file of the work directory that the path names.
PathNamed(path) == CHOOSE p \in Paths : <<p>> = trim(path)

\* apply_patch.rs:52-58: the + lines of an Add File hunk from line i on,
\* joined by newlines; a newline is put before a line only when the
\* contents so far are not the empty string.
RECURSIVE AddedContents(_, _, _)
AddedContents(lines, i, contents) ==
    IF i <= Len(lines) /\ starts_with(lines[i], <<"+">>)
    THEN AddedContents(lines, i + 1,
                       IF contents \in {<<>>, <<<<>>>>}
                       THEN <<Tail(lines[i])>>
                       ELSE Append(contents, Tail(lines[i])))
    ELSE [i |-> i, contents |-> IF contents = <<>> THEN <<<<>>>> ELSE contents]

\* apply_patch.rs:87-92: the context of a chunk header.
ContextOf(l) ==
    The({IF ctx = <<>> THEN None ELSE Some(ctx) :
           ctx \in {IF starts_with(l, <<"@", "@", " ">>)
                    THEN SubSeq(l, 4, Len(l))
                    ELSE SubSeq(l, 3, Len(l))}})

\* apply_patch.rs:109-120: a line of the body of a chunk.
WithLine(chunk, l) ==
    IF starts_with(l, <<"-">>)
    THEN [chunk EXCEPT !.old_lines = Append(@, Tail(l))]
    ELSE IF starts_with(l, <<"+">>)
    THEN [chunk EXCEPT !.new_lines = Append(@, Tail(l))]
    ELSE IF starts_with(l, <<" ">>)
    THEN [chunk EXCEPT !.old_lines = Append(@, Tail(l)),
                       !.new_lines = Append(@, Tail(l))]
    ELSE [chunk EXCEPT !.old_lines = Append(@, l),
                       !.new_lines = Append(@, l)]

\* apply_patch.rs:100-121: the loop over the body of a chunk from line i
\* on (lines count from 1): it ends at a line that starts with "@@" or
\* with "*** ", and at an End of File line that the loop condition lets in.
RECURSIVE ChunkBody(_, _, _)
ChunkBody(lines, i, chunk) ==
    IF i > Len(lines) \/ starts_with(lines[i], AT_AT)
                      \/ starts_with(lines[i], STARS)
    THEN [i |-> i, chunk |-> chunk]
    ELSE IF trim(lines[i]) = END_OF_FILE
    THEN [i |-> i + 1, chunk |-> [chunk EXCEPT !.is_end_of_file = TRUE]]
    ELSE ChunkBody(lines, i + 1, WithLine(chunk, lines[i]))

\* apply_patch.rs:82-133: the chunks of an Update File hunk from line i on;
\* a line that is not a chunk header is skipped.
RECURSIVE Chunks(_, _, _)
Chunks(lines, i, chunks) ==
    IF i > Len(lines) \/ starts_with(lines[i], STARS)
    THEN [i |-> i, chunks |-> chunks]
    ELSE IF starts_with(lines[i], AT_AT)
    THEN The({Chunks(lines, r.i, Append(chunks, r.chunk)) :
                r \in {ChunkBody(lines, i + 1,
                                 UpdateChunk(ContextOf(lines[i]), <<>>, <<>>,
                                             FALSE))}})
    ELSE Chunks(lines, i + 1, chunks)

\* apply_patch.rs:73-79: the line after the Update File header, when it is
\* a Move to line.
MoveTo(lines, i) ==
    IF i <= Len(lines) /\ starts_with(lines[i], MOVE_TO)
    THEN Some(PathNamed(strip_prefix(lines[i], MOVE_TO).v))
    ELSE None

\* apply_patch.rs:44-143: the loop over the hunks from line i on.
RECURSIVE Hunks(_, _, _)
Hunks(lines, i, parsed) ==
    IF i > Len(lines) THEN parsed
    ELSE IF trim(lines[i]) = END_PATCH THEN parsed
    ELSE IF starts_with(lines[i], ADD_FILE)
    THEN The({Hunks(lines, r.i,
                    Append(parsed,
                           AddFile(PathNamed(strip_prefix(lines[i],
                                                          ADD_FILE).v),
                                   r.contents))) :
                r \in {AddedContents(lines, i + 1, <<>>)}})
    ELSE IF starts_with(lines[i], DELETE_FILE)
    THEN Hunks(lines, i + 1,
               Append(parsed,
                      DeleteFile(PathNamed(strip_prefix(lines[i],
                                                        DELETE_FILE).v))))
    ELSE IF starts_with(lines[i], UPDATE_FILE)
    THEN The({The({Hunks(lines, r.i,
                         Append(parsed,
                                UpdateFile(PathNamed(strip_prefix(lines[i],
                                                         UPDATE_FILE).v),
                                           move_to, r.chunks))) :
                     r \in {Chunks(lines,
                                   IF move_to = None THEN i + 1 ELSE i + 2,
                                   <<>>)}}) :
                move_to \in {MoveTo(lines, i + 1)}})
    ELSE Hunks(lines, i + 1, parsed)

\* apply_patch.rs:31-149 parse_patch on the lines of the input
\* (input.lines()): Some(hunks), or None for the two bails.
parse_patch(lines) ==
    IF \A i \in DOMAIN lines : trim(lines[i]) # BEGIN_PATCH THEN None
    ELSE The({IF parsed = <<>> THEN None ELSE Some(parsed) :
                parsed \in {Hunks(lines,
                                  Least({i \in DOMAIN lines :
                                           trim(lines[i]) = BEGIN_PATCH}) + 1,
                                  <<>>)}})

\* The lines that follow the Update File header in the inputs: a chunk
\* header, a removed and an added line, and the End of File line as the
\* format has it and indented.
BodyLines ==
    {AT_AT, <<"-">> \o LineBaz, <<"+">> \o LineBAR, END_OF_FILE,
     <<" ">> \o END_OF_FILE}

MaxBody == 4

\* The inputs: an update of f with up to MaxBody lines, and one input for
\* each other kind of line: a move, an added and a deleted file, text
\* around the patch, a missing header and a patch without hunks.
PatchInputs ==
    {<<BEGIN_PATCH, UPDATE_FILE \o <<"f">>>> \o body \o <<END_PATCH>> :
        body \in SeqsUpTo(BodyLines, MaxBody)}
    \cup {<<BEGIN_PATCH, UPDATE_FILE \o <<"f">>, MOVE_TO \o <<"g">>,
            <<"@", "@", " ">> \o LineBar, <<" ">> \o LineBaz,
            <<"+">> \o LineFoo, END_PATCH>>,
          <<LineFoo, BEGIN_PATCH, ADD_FILE \o <<"g">>, <<"+">>,
            <<"+">> \o LineBAR, <<"+">> \o LineBar,
            DELETE_FILE \o <<"f", " ">>, LineFoo, END_PATCH, LineFoo>>,
          <<UPDATE_FILE \o <<"f">>, AT_AT, <<"-">> \o LineBaz, END_PATCH>>,
          <<BEGIN_PATCH, LineFoo, END_PATCH>>}

InitParse ==
    /\ InitWith(MaxSubs, MaxWire, MaxRequests)
    /\ WsInit(MaxFrames)
    /\ FeInit
    /\ ApiInit(MaxApiCalls, MaxExpiries)
    /\ fs \in {[p \in Paths |-> IF p = "f" THEN f ELSE None] :
                 f \in {File(<<LineFoo, LineBar, LineBaz, <<>>>>),
                        File(<<LineBaz, LineFoo, LineBaz, <<>>>>)}}
    /\ todo \in {<<text>> : text \in PatchInputs}
    /\ patch_pc = "idle"
    /\ hunks = <<>>
    /\ hunk_no = 0
    /\ fs_trail = <<>>
    /\ patch_log = <<>>
    /\ seek_call = NoSeek
    /\ patch_input = NoInput

\* apply_patch.rs:24-26 execute on a text: parse_patch, then apply_hunks
\* unless the ? returns the error of the parser.
ExecuteInput ==
    /\ patch_pc = "idle"
    /\ todo # <<>>
    /\ todo' = Tail(todo)
    /\ patch_input' = Head(todo)
    /\ \E parsed \in {parse_patch(Head(todo))} :
          IF parsed = None
          THEN /\ patch_log' = Append(patch_log,
                                      [hunks |-> <<>>, trail |-> <<fs>>,
                                       ok |-> FALSE, failed_at |-> 0,
                                       after |-> fs])
               /\ UNCHANGED <<hunks, hunk_no, fs_trail, patch_pc>>
          ELSE /\ hunks' = parsed.v
               /\ hunk_no' = 0
               /\ fs_trail' = <<fs>>
               /\ patch_pc' = "apply"
               /\ UNCHANGED patch_log
    /\ UNCHANGED <<fs, seek_call>>
    /\ UNCHANGED <<agentVars, wsVars, feVars, apiVars>>

NextParse ==
    \/ ExecuteInput
    \/ ApplyHunk
    \/ PatchReturns

SpecParse == InitParse /\ [][NextParse]_vars

\* ------------------------------------------------------------- properties
\* The events of the current submission and of the current turn (one LLM
\* request/response cycle with its synthetic tool-result blocks).
SubSeg == SubSeq(eq, sub_start + 1, Len(eq))
TurnSeg == SubSeq(eq, turn_start + 1, Len(eq))

Starts(seg) == SelectSeq(seg, LAMBDA e : e.type = "ContentBlockStart")
Stops(seg) == SelectSeq(seg, LAMBDA e : e.type = "ContentBlockStop")

IsAssistantWithToolUse(m) ==
    m.role = "assistant" /\ ToolUsesOf(m.content) # <<>>

\* m is a user-role message of ToolResult blocks that echo, position by
\* position, the ids of the ToolUse blocks of the assistant message a.
Echoes(m, a) ==
    /\ m.role = "user"
    /\ Len(m.content) = Len(ToolUsesOf(a.content))
    /\ \A k \in DOMAIN m.content :
         /\ m.content[k].type = "tool_result"
         /\ m.content[k].tool_use_id = ToolUsesOf(a.content)[k].id

\* C1: for every turn that dispatched tools, the message that follows the
\* assistant message in the history holds exactly one ToolResult per ToolUse
\* of that assistant message, with the same id, in the same order.
C1_ToolResultsEchoed ==
    \A i \in dispatched :
        i < Len(messages) => Echoes(messages[i + 1], messages[i])

\* C2: on the EQ, within a turn, no ContentBlockStop comes without an earlier
\* ContentBlockStart of the same index, no index is stopped twice, and when
\* the turn has completed every ContentBlockStart has its ContentBlockStop
\* and the two counts are equal.
C2_StartStopMatched ==
    /\ \A p \in DOMAIN TurnSeg :
         TurnSeg[p].type = "ContentBlockStop" =>
            /\ \E q \in 1..(p - 1) :
                 /\ TurnSeg[q].type = "ContentBlockStart"
                 /\ TurnSeg[q].index = TurnSeg[p].index
            /\ \A q \in 1..(p - 1) :
                 TurnSeg[q].type = "ContentBlockStop"
                    => TurnSeg[q].index # TurnSeg[p].index
    /\ (pc = "recv" /\ loop_result = "ok") =>
         Len(Starts(TurnSeg)) = Len(Stops(TurnSeg))

\* C3: within a turn the indices of the successive ContentBlockStart events
\* on the EQ start at 0 and strictly increase.
C3_IndicesIncreaseFromZero ==
    LET st == Starts(TurnSeg) IN
    /\ st # <<>> => st[1].index = 0
    /\ \A k \in 1..(Len(st) - 1) : st[k].index < st[k + 1].index

\* C4: once the turn cycle is over, every assistant message of the history
\* that holds a ToolUse block is immediately followed by a user-role message
\* of ToolResult blocks echoing its ToolUse ids in order.
C4_ToolUseFollowed ==
    pc \in {"recv", "done"} =>
        \A i \in DOMAIN messages :
            IsAssistantWithToolUse(messages[i]) =>
                /\ i < Len(messages)
                /\ Echoes(messages[i + 1], messages[i])

IsTerminal(e) ==
    \/ e.type = "Error"
    \/ e.type = "StatusChange" /\ e.status = "Completed"

\* C5: for every UserMessage or FollowUp consumed, the user-role message with
\* the text is in the history before anything is emitted, the first event of
\* the submission is StatusChange(Working), and the submission ends with
\* exactly one terminating event, its last one: StatusChange(Completed) when
\* the inner loop succeeded, Error when it failed.
C5_SubmissionBracket ==
    (sub # None /\ IsMessage(sub)) =>
        /\ \E i \in DOMAIN messages : messages[i] = user_message(sub.text)
        /\ pc = "working" =>
             /\ SubSeg = <<>>
             /\ messages[Len(messages)] = user_message(sub.text)
        /\ pc # "working" =>
             /\ SubSeg # <<>>
             /\ SubSeg[1] = StatusChange("Working")
        /\ pc \in {"request", "drain", "join"} =>
             \A p \in DOMAIN SubSeg : ~IsTerminal(SubSeg[p])
        /\ pc = "recv" =>
             /\ IsTerminal(SubSeg[Len(SubSeg)])
             /\ \A p \in 1..(Len(SubSeg) - 1) : ~IsTerminal(SubSeg[p])
             /\ loop_result = "ok" =>
                  SubSeg[Len(SubSeg)] = StatusChange("Completed")
             /\ loop_result # "ok" => SubSeg[Len(SubSeg)].type = "Error"

\* A submission whose inner loop failed after it had streamed events.
C5_Witness ==
    /\ pc = "recv"
    /\ sub # None /\ IsMessage(sub)
    /\ loop_result = "err"
    /\ Len(SubSeg) >= 3
    /\ SubSeg[1] = StatusChange("Working")
    /\ SubSeg[Len(SubSeg)].type = "Error"

IsUserText(m) ==
    m.role = "user" /\ Len(m.content) = 1 /\ m.content[1].type = "text"

\* C6: the task does not return after a turn, whether it ended in Completed
\* or in Error; every LLM request carries the whole history accumulated so
\* far, which holds the user message of every submission consumed (those of
\* failed turns included) in order, and the first request of a submission
\* ends with the new user message.
C6_FollowUpSeesHistory ==
    /\ pc = "done" => (sub = None \/ ~IsMessage(sub))
    /\ SelectSeq(messages, IsUserText)
         = [k \in 1..Len(SelectSeq(consumed, IsMessage)) |->
              user_message(SelectSeq(consumed, IsMessage)[k].text)]
    /\ pc = "drain" =>
         /\ last_request = messages
         /\ turn_start = sub_start + 1 =>
              last_request[Len(last_request)] = user_message(sub.text)

\* The request of a FollowUp that comes after a failed turn.
C6_Witness ==
    /\ pc = "drain"
    /\ sub.kind = "FollowUp"
    /\ loop_result = "err"
    /\ Len(last_request) >= 2
    /\ last_request[1] = user_message("text 1")
    /\ last_request[Len(last_request)] = user_message("text 2")

\* C7: the task has returned only if recv() reported the closed SQ, or the
\* last submission received was Cancel or Shutdown; on Cancel the last event
\* on the EQ is StatusChange(Cancelled), on Shutdown nothing was emitted, and
\* nothing is placed on the EQ after the return.
C7_TaskReturns ==
    pc = "done" =>
        \/ /\ sub = None
           /\ sq_closed
           /\ Len(eq) = sub_start
        \/ /\ sub # None
           /\ sub.kind = "Cancel"
           /\ Len(eq) = sub_start + 1
           /\ eq[Len(eq)] = StatusChange("Cancelled")
        \/ /\ sub # None
           /\ sub.kind = "Shutdown"
           /\ Len(eq) = sub_start

\* The task returned on a Shutdown received after a turn.
C7_Witness ==
    /\ pc = "done"
    /\ sub # None
    /\ sub.kind = "Shutdown"
    /\ sub_start > 0

\* C8: within one turn an executor of a tool that is not read-only never
\* runs at the same time as another executor of that turn.
C8_WriterExcludesAll ==
    \A i, j \in DOMAIN executors :
        (i # j /\ Running(i) /\ ~supports_parallel(tool_uses[i].name))
            => ~Running(j)

\* A write tool runs while another tool of the turn waits for the lock.
C8_Witness ==
    \E i, j \in DOMAIN executors :
        /\ i # j
        /\ Running(i)
        /\ ~supports_parallel(tool_uses[i].name)
        /\ executors[j].st = "spawned"

ResultIds(seg) ==
    LET rs == SelectSeq(seg, LAMBDA e : e.type = "ContentBlockStart"
                                /\ e.content_block.type = "tool_result")
    IN [k \in 1..Len(rs) |-> rs[k].content_block.tool_use_id]

IdsOf(uses) == [k \in 1..Len(uses) |-> uses[k].id]

HasToolResult(m) ==
    \E k \in DOMAIN m.content : m.content[k].type = "tool_result"

IsPrefix(a, b) == Len(a) <= Len(b) /\ a = SubSeq(b, 1, Len(a))

\* C9: no ToolResult event of a turn is on the EQ before every executor of
\* the turn has finished; the ToolResult events emitted are in the order of
\* the ToolUse blocks, and so are the ToolResult blocks of the message pushed
\* to the history, in whatever order the executors finished.
C9_ResultsInOrderAfterJoin ==
    /\ (\E i \in DOMAIN executors : executors[i].st # "done")
          => ResultIds(TurnSeg) = <<>>
    /\ IsPrefix(ResultIds(TurnSeg), IdsOf(tool_uses))
    /\ \A i \in DOMAIN messages :
          HasToolResult(messages[i]) =>
             i > 1 /\ Echoes(messages[i], messages[i - 1])
    /\ (pc = "request" /\ HasToolResult(messages[Len(messages)])) =>
          /\ ResultIds(TurnSeg) = IdsOf(tool_uses)
          /\ ToolUsesOf(messages[Len(messages) - 1].content) = tool_uses

\* Two executors finished in the reverse order and their results are pushed.
C9_Witness ==
    /\ pc = "request"
    /\ HasToolResult(messages[Len(messages)])
    /\ Len(tool_uses) = 2
    /\ finish_order = <<2, 1>>
    /\ ResultIds(TurnSeg) = IdsOf(tool_uses)

OkSubs == LET ok == SelectSeq(calls, LAMBDA c : c.res = "ok")
          IN [k \in 1..Len(ok) |-> ok[k].sub]

\* C10: a submit returns the channel-closed error exactly when the agent
\* task has returned (a submit that had to wait included), never because the
\* SQ is full; while the task lives, the submissions accepted are exactly
\* those received followed by those buffered, in order, and a waiting
\* submission is not yet among them.
C10_SubmitBlocksOrFailsClosed ==
    /\ \A k \in DOMAIN calls :
         (calls[k].res = "Agent thread closed") <=> calls[k].exited
    /\ Len(sq) <= SQ_CAPACITY
    /\ pc # "done" => OkSubs = consumed \o sq
    /\ pc = "done" => IsPrefix(consumed, OkSubs)

\* A submit waited on the full SQ and was accepted once a slot was free.
C10_Witness ==
    \E k \in DOMAIN calls :
        /\ calls[k].waited
        /\ calls[k].res = "ok"
        /\ \E j \in DOMAIN consumed : consumed[j] = calls[k].sub

\* C11 (as claimed): a submit that finds the SQ full reports the
\* "Agent thread closed" error to its caller.
C11_OverflowReportsClosed ==
    \A k \in DOMAIN calls :
        calls[k].waited => calls[k].res = "Agent thread closed"

\* C11 (amended): a submit that finds the SQ full reports no error: it waits
\* and is accepted once the agent has taken a submission; the error is
\* reported only to a call that found the agent task returned.
C11_OverflowWaits ==
    /\ \A k \in DOMAIN calls :
         calls[k].res = "Agent thread closed" => calls[k].exited
    /\ \A k \in DOMAIN calls :
         (calls[k].waited /\ ~calls[k].exited) =>
             /\ calls[k].res = "ok"
             /\ \E j \in DOMAIN OkSubs : OkSubs[j] = calls[k].sub

\* A submit found the SQ full, waited, and its submission is now buffered.
C11_Witness ==
    /\ blocked = None
    /\ Len(calls) = MaxSubs
    /\ calls[Len(calls)].waited
    /\ calls[Len(calls)].res = "ok"
    /\ sq # <<>>
    /\ sq[Len(sq)] = calls[Len(calls)].sub

\* ------------------------------------------------ properties: event.rs
\* The frames of message m handled in connection e, in order of arrival.
PartsReceived(m, e) ==
    SelectSeq(ws_recv, LAMBDA r : /\ r.epoch = e
                                  /\ r.frame.method = METHOD_DATA
                                  /\ r.frame.headers.type = MSG_TYPE_EVENT
                                  /\ r.frame.headers.message_id = m)

\* The payloads merge_parts emitted for message m in connection e.
Emitted(m, e) ==
    SelectSeq(ws_merges, LAMBDA c : /\ c.epoch = e
                                    /\ c.message_id = m
                                    /\ c.out # None)

\* Every part 0..n-1 of message m arrived exactly once in connection e, and
\* nothing else arrived under that message id.
AllPartsOnce(m, n, e) ==
    LET got == PartsReceived(m, e)
    IN /\ Len(got) = n
       /\ \A k \in 0..(n - 1) :
            \E j \in DOMAIN got : /\ got[j].frame.headers.seq = k
                                  /\ got[j].frame.headers.sum = n

\* The payloads of slots from..Len(parts), joined from the first on.
RECURSIVE JoinFrom(_, _)
JoinFrom(parts, from) ==
    IF from > Len(parts) THEN <<>>
    ELSE parts[from].b \o JoinFrom(parts, from + 1)

\* The slots of an entry after the part seq is stored in it.
SlotsAfter(c) ==
    LET old == IF c.before = None THEN [k \in 1..c.sum |-> None]
               ELSE c.before.parts
    IN [k \in DOMAIN old |-> IF k = c.seq + 1 THEN c.data ELSE old[k]]

\* C18 (as claimed): once the parts 0..N-1 of a message have arrived, in
\* any order, the merged payload was emitted exactly once and is the parts
\* joined in seq order; before that nothing is emitted.
C18_AllPartsEmitOnce ==
    \A e \in 1..ws_epoch :
        /\ AllPartsOnce("m", 2, e) =>
              /\ Len(Emitted("m", e)) = 1
              /\ Emitted("m", e)[1].out = MultiDoc
        /\ Len(PartsReceived("m", e)) < 2 => Emitted("m", e) = <<>>

\* C18 (amended): merge_parts emits exactly when the part it stores fills
\* the last empty slot of the cache entry of the message, then emits the
\* slots joined in seq order and removes the entry, and otherwise keeps the
\* entry with the part stored; so parts 0..N-1 arriving in any order give
\* exactly one emission provided the entry is not evicted in between.
C18_EmitWhenEntryComplete ==
    /\ \A k \in DOMAIN ws_merges :
         LET c == ws_merges[k]
             slots == SlotsAfter(c)
             full == \A j \in DOMAIN slots : slots[j] # None
         IN c.sum > 1 =>
              /\ (c.out # None) <=> full
              /\ full => c.out = Bytes(JoinFrom(slots, 1)) /\ c.after = None
              /\ ~full => c.after # None /\ c.after.parts = slots
    /\ \A e \in 1..ws_epoch :
         (AllPartsOnce("m", 2, e) /\ <<e, "m">> \notin ws_evictions) =>
             /\ Len(Emitted("m", e)) = 1
             /\ Emitted("m", e)[1].out = MultiDoc

\* Part 1 arrived before part 0 and the message was emitted in seq order.
C18_Witness ==
    \E k \in DOMAIN ws_merges :
        /\ ws_merges[k].seq = 0
        /\ ws_merges[k].before # None
        /\ ws_merges[k].before.parts[2] = MultiParts[2]
        /\ ws_merges[k].out = MultiDoc
        /\ AllPartsOnce("m", 2, ws_merges[k].epoch)

\* C19: every data frame handled has a response frame with its seq_id,
\* method = data, its headers and biz_rt = 0, and the code 200, or 500 when
\* the payload does not decode; stated for the data frames that carry an
\* event (type = event), the parts of a multi-part message included.
C19_EveryDataFrameAnswered ==
    \A k \in DOMAIN ws_recv :
        LET f == ws_recv[k].frame
        IN (f.method = METHOD_DATA /\ f.headers.type = MSG_TYPE_EVENT) =>
             \E j \in DOMAIN ws_sent :
                 /\ ws_sent[j].seq_id = f.seq_id
                 /\ ws_sent[j].method = METHOD_DATA
                 /\ ws_sent[j].headers = f.headers
                 /\ ws_sent[j].biz_rt = "0"
                 /\ ws_sent[j].code \in {200, 500}

\* -------------------------------------------------- properties: api.rs
\* The requests sent that carry a sequence value, in the order sent.
Sequenced == SelectSeq(api_sent, LAMBDA r : r.op \in SequencedOps)

\* C13: the sequence values of the mutating CardKit requests sent, a re-sent
\* request counted, strictly increase in the order the requests are sent.
C13_SequenceStrictlyIncreasing ==
    \A i, j \in DOMAIN Sequenced :
        i < j => Sequenced[i].sequence < Sequenced[j].sequence

TokenErrorCodes == {99991663, 99991661}

\* What C17 says of one API call r, finished or under way.
OneRefreshOneRetry(r, finished) ==
    LET reqs == SelectSeq(api_sent, LAMBDA q : q.id = r.id)
    IN /\ Len(reqs) <= 2
       /\ \A k \in DOMAIN reqs : /\ reqs[k].op = r.op
                                 /\ reqs[k].sequence = r.sequence
                                 /\ reqs[k].attempt = k
       /\ Len(reqs) = 2 =>
             /\ r.codes[1] \in TokenErrorCodes
             /\ r.invalidated
             /\ r.fetched # <<>>
             /\ reqs[2].token = r.fetched[Len(r.fetched)]
             /\ reqs[2].token # reqs[1].token
       /\ (r.codes # <<>> /\ r.codes[1] \in TokenErrorCodes /\ finished) =>
             /\ r.invalidated
             /\ Len(reqs) = 2 \/ r.result = "err"
       /\ finished =>
             (r.result = "ok" <=>
                 /\ Len(r.codes) = Len(reqs)
                 /\ r.codes # <<>>
                 /\ r.codes[Len(r.codes)] = 0)

\* C17: a call that gets a token-error code clears the cache, fetches a
\* token and re-sends the same request once with it; a second failure is
\* returned, so a call sends at most two requests; and the step that ends
\* a successful refresh leaves the fetched token in the cache.
C17_OneRefreshOneRetry ==
    /\ [](/\ \A k \in DOMAIN api_calls :
                OneRefreshOneRetry(api_calls[k], TRUE)
          /\ \A c \in Callers :
                api_pc[c].pc # "idle" => OneRefreshOneRetry(api_pc[c], FALSE))
    /\ [][\A c \in Callers :
            /\ (api_pc[c].pc = "invalidate" /\ api_pc'[c].pc = "fetch") =>
                   tenant_token' = NoToken
            /\ (api_pc[c].pc = "fetch" /\ api_pc'[c].pc = "send") =>
                   /\ tenant_token' = api_pc'[c].token
                   /\ tenant_token' # NoToken]_vars

\* A call got a token error, refreshed, re-sent and succeeded, and the
\* cache holds the token of the second request.
C17_Witness ==
    \E k \in DOMAIN api_calls :
        /\ Len(api_calls[k].tokens) = 2
        /\ api_calls[k].codes[1] \in TokenErrorCodes
        /\ api_calls[k].result = "ok"
        /\ tenant_token = api_calls[k].tokens[2]

\* ------------------------------------------------ properties: feishu.rs
\* The agent of thread t waits in emit on the full EQ, the poller of the
\* thread waits to send on the full front-end channel, and the main loop,
\* the only reader of that channel, waits in submit on the full SQ of the
\* thread, which only the agent reads.
EqStall(t) ==
    /\ agents[t] # <<>>
    /\ Len(eqs[t]) = EQ_CAPACITY
    /\ pollers[t] # None
    /\ Len(fe) = FE_CAPACITY
    /\ main_blocked # None
    /\ main_blocked.thread_id = t
    /\ Len(sqs[t]) = SQ_CAPACITY

\* C12: the main loop, the poller and the agent never reach a state in
\* which the agent is blocked forever sending on the full EQ.
C12_NoEqStall == \A t \in ThreadIds : ~EqStall(t)

\* Once the three tasks wait on each other, they do so in every later state.
EqStallIsForever ==
    [][\A t \in ThreadIds :
         EqStall(t) => /\ EqStall(t)'
                       /\ UNCHANGED <<agents[t], eqs[t], pollers[t], fe,
                                      main_blocked, sqs[t]>>]_vars


\* The card was handed to the main loop: its CardReady has been handled.
CardIsReady(c) == card_to_thread[CardMsgIds[c]] # NoThread

\* transport.finish_card was called on the card.
CardIsClosed(c) == \E x \in card_closed : x.card = c

\* C14: once the main loop has handled both the terminal status of a turn
\* and the CardReady of the card created for that turn, in either order,
\* the card has been closed.
C14_TerminalTurnClosesCard ==
    \A c \in 1..Len(card_owner) :
        LET t == card_owner[c].thread_id
            k == card_owner[c].turn
        IN (/\ CardIsReady(c)
            /\ k <= Len(turns_done[t])
            /\ is_terminal(turns_done[t][k]))
           => CardIsClosed(c)


\* C15: for every follow-up turn that the main loop has seen start after a
\* turn that ended with a terminal status, a card creation was spawned, and
\* every card content written or closed during a turn went to the card
\* created for that turn, never to the card of an earlier turn.
C15_FollowUpGetsOwnCard ==
    \A t \in ThreadIds :
        \A k \in 2..fe_turns[t] :
            is_terminal(turns_done[t][k - 1])
            => /\ [thread_id |-> t, turn |-> k] \in card_spawned
               /\ \A w \in card_writes \cup card_closed :
                    (card_owner[w.card].thread_id = t /\ w.turn = k)
                    => card_owner[w.card].turn = k


\* The main loop takes a ReplyMessage off the front-end channel.
HandlesReply ==
    /\ main_blocked = None
    /\ fe # <<>>
    /\ Head(fe).type = "ReplyMessage"
    /\ fe' = Tail(fe)

\* C16: handling ReplyMessage{card_msg_id, text} has exactly one of two
\* outcomes.  If card_msg_id is indexed to a thread, FollowUp(text) is
\* submitted to that thread (it enters the SQ of the thread, at once or when
\* the SQ has a slot), nothing goes to another thread and no
\* session-expired text is sent.  Otherwise the session-expired text is
\* replied to card_msg_id and nothing is submitted to any thread.
C16_ReplyRoutedOrExpired ==
    [][/\ HandlesReply =>
            LET c == Head(fe).card_msg_id
                tid == card_to_thread[c]
                follow == FollowUp(Head(fe).text)
            IN IF tid # NoThread
               THEN /\ \/ /\ sqs' = [sqs EXCEPT ![tid] = Append(@, follow)]
                          /\ main_blocked' = None
                       \/ /\ sqs' = sqs
                          /\ main_blocked' = [thread_id |-> tid, sub |-> follow]
                    /\ expired_replies' = expired_replies
               ELSE /\ sqs' = sqs
                    /\ main_blocked' = None
                    /\ expired_replies' = Append(expired_replies, c)
       /\ (main_blocked # None /\ main_blocked' = None) =>
            sqs' = [sqs EXCEPT ![main_blocked.thread_id] =
                                   Append(@, main_blocked.sub)]]_vars

\* A reply to a card that is not indexed was answered with the
\* session-expired text, and a reply to an indexed card started a
\* follow-up turn of its thread.
C16_Witness ==
    /\ expired_replies # <<>>
    /\ \E t \in ThreadIds : fe_turns[t] >= 2


\* The main loop takes a NewMessage off the front-end channel.
HandlesNew ==
    /\ main_blocked = None
    /\ fe # <<>>
    /\ Head(fe).type = "NewMessage"
    /\ fe' = Tail(fe)

\* The event loop of the transport moves on: a connect, a failed
\* discovery, a disconnect or the end of the sleep.
WsMoves == ws_pc' # ws_pc \/ ws_epoch' # ws_epoch

Joined(i) == pc # "join" \/ i < Len(messages)

\* C24: once the executors of a dispatched assistant message have been
\* joined, the message is followed in the history by its tool-result
\* message, and every executor that panicked (or was cancelled) has there a
\* ToolResult with is_error = TRUE.
C24_PanicSurfacesAsToolResult ==
    \A i \in dispatched :
        Joined(i) =>
            /\ i < Len(messages)
            /\ Echoes(messages[i + 1], messages[i])
            /\ \A k \in DOMAIN executors :
                 (/\ tool_uses = ToolUsesOf(messages[i].content)
                  /\ executors[k].res = "panic")
                 => messages[i + 1].content[k].is_error


\* The assistant message whose tools the executors of the state ran.
LastDispatched ==
    CHOOSE i \in dispatched : \A j \in dispatched : j <= i

\* C25: when the executors of a turn have been joined, every tool whose
\* execution returned an error has the block ToolResult{is_error = TRUE,
\* content = "Error: <msg>"} in the tool-result message that follows the
\* assistant message, the turn has not been aborted, and the next LLM
\* request is the next step or has been sent with that message in it.
C25_ToolErrorBecomesResult ==
    (/\ dispatched # {}
     /\ executors # <<>>
     /\ pc # "join"
     /\ \E k \in DOMAIN executors : executors[k].res = "err")
    => LET i == LastDispatched IN
       /\ i < Len(messages)
       /\ messages[i + 1].role = "user"
       /\ \A k \in DOMAIN executors :
            executors[k].res = "err"
            => /\ k \in DOMAIN messages[i + 1].content
               /\ messages[i + 1].content[k] =
                     tool_result_block(tool_uses[k].id, "Error: e", TRUE)
       /\ \/ pc = "request"
          \/ IsPrefix(SubSeq(messages, 1, i + 1), last_request)


\* The submission received last has been handled to its end.
TurnOver == pc = "recv" /\ SubSeg # <<>>

\* The turn ended with an Error event and without StatusChange(Completed).
EndedWithError ==
    /\ SubSeg[Len(SubSeg)].type = "Error"
    /\ \A p \in DOMAIN SubSeg : SubSeg[p] # StatusChange("Completed")

\* C26: a turn in which the response stream was cut by a transport error
\* after the response had started ends with an Error event on the EQ and
\* not with StatusChange(Completed).
C26_InterruptedTurnEndsWithError ==
    (TurnOver /\ "interrupted" \in turn_faults) => EndedWithError

\* C27: a turn in which the endpoint sent a malformed SSE event ends with
\* an Error event on the EQ.
C27_MalformedEventEndsWithError ==
    (TurnOver /\ "malformed" \in turn_faults)
    => \E p \in DOMAIN SubSeg : SubSeg[p].type = "Error"


\* C29: the message history is append-only: every step leaves the messages
\* appended so far unchanged and in place, and the history never shrinks.
C29_HistoryAppendOnly ==
    [][/\ Len(messages') >= Len(messages)
       /\ \A p \in DOMAIN messages : messages'[p] = messages[p]]_vars

\* The history holds a submission, an assistant message with a tool call
\* and its tool-result message, a later turn failed, and another
\* submission was appended after the failure.
C29_Witness ==
    /\ Len(messages) >= 4
    /\ dispatched # {}
    /\ \E p \in DOMAIN messages : HasToolResult(messages[p])
    /\ loop_result = "err"
    /\ Len(consumed) = 2
    /\ IsUserText(messages[Len(messages)])


\* A step on which the transport read a message it could not decode: either
\* no Frame came out of it (nothing reached handle_frame), or the payload
\* handle_frame put together is no JSON text.
DecodeFailureStep ==
    /\ ws_frames_left' = ws_frames_left - 1
    /\ \/ ws_recv' = ws_recv
       \/ /\ Len(ws_recv') = Len(ws_recv) + 1
          /\ LET r == handle_frame(ws_recv'[Len(ws_recv')].frame, msg_cache)
             IN r.merge # None /\ r.merge.out # None
                  /\ r.merge.out \notin JsonDocs

\* C28: a decode failure on an inbound frame (malformed protobuf frame or
\* malformed JSON payload) is answered with a response frame code=500,
\* emits no TransportEvent, and leaves the connection open.
C28_DecodeFailureAnswered500 ==
    [][DecodeFailureStep =>
          /\ Len(ws_sent') = Len(ws_sent) + 1
          /\ ws_sent'[Len(ws_sent')].code = 500
          /\ bridge' = bridge
          /\ ws_pc' = "connected"]_vars


\* ------------------------------------------------- properties: apply_patch
SeekReturned == seek_call # NoSeek /\ seek_call.result # NoSeek

\* The pattern of the call matches the file at index i at the level.
MatchesAt(level, i) ==
    /\ i + Len(seek_call.pattern) <= Len(seek_call.lines)
    /\ \A p \in 1..Len(seek_call.pattern) :
         LineEq(level, seek_call.lines[i + p], seek_call.pattern[p])

\* The positions the call may return: from start, or from len-|pattern|
\* when eof, up to len-|pattern|.
SeekWindow ==
    IF Len(seek_call.pattern) > Len(seek_call.lines) THEN {}
    ELSE LET last == Len(seek_call.lines) - Len(seek_call.pattern)
         IN {i \in 0..last : i >= IF seek_call.eof THEN last
                                   ELSE seek_call.start}

\* The result is the earliest position of the window that matches at the
\* strictest level that has a match in the window, or None when no position
\* of the window matches at any level.
SeekContract ==
    IF seek_call.result = None
    THEN \A i \in SeekWindow : \A level \in 1..4 : ~MatchesAt(level, i)
    ELSE LET i == seek_call.result.v
         IN /\ i \in SeekWindow
            /\ \E level \in 1..4 :
                 /\ MatchesAt(level, i)
                 /\ \A j \in SeekWindow :
                      /\ j < i => ~MatchesAt(level, j)
                      /\ \A stricter \in 1..4 :
                           stricter < level => ~MatchesAt(stricter, j)

LinesOf(content) ==
    IF is_empty_last(content.pieces) THEN Front(content.pieces)
    ELSE content.pieces

\* C22: on the file lines ["foo", "bar  ", "baz"] the update chunk with
\* context "bar", old_lines ["bar"] and new_lines ["BAR"] is applied
\* successfully and the file lines become ["foo", "BAR", "baz"].
C22_ContextAndOldLineOnSameLine ==
    \A k \in DOMAIN patch_log :
        LET e == patch_log[k]
        IN (/\ e.hunks = <<UpdateFile("f", None,
                             <<UpdateChunk(Some(LineBar), <<LineBar>>,
                                           <<LineBAR>>, FALSE)>>)>>
            /\ e.trail[1]["f"] # None
            /\ LinesOf(e.trail[1]["f"]) = <<LineFoo, LineBarBlanks, LineBaz>>)
           => /\ e.ok
              /\ e.after["f"] # None
              /\ LinesOf(e.after["f"]) = <<LineFoo, LineBAR, LineBaz>>

\* No comparator but the exact one can tell the lines apart: none of them
\* has a blank at either end or a character that normalise maps.
PlainLines(lines) == \A p \in DOMAIN lines : normalise(lines[p]) = lines[p]

NoFuzzy(e) ==
    /\ e.trail[1]["f"] # None
    /\ PlainLines(e.trail[1]["f"].pieces)
    /\ \A c \in DOMAIN e.hunks[1].chunks :
         /\ PlainLines(e.hunks[1].chunks[c].old_lines)
         /\ PlainLines(e.hunks[1].chunks[c].new_lines)
         /\ e.hunks[1].chunks[c].context # None
               => PlainLines(<<e.hunks[1].chunks[c].context.v>>)

\* C23: an update patch that matches without fuzzy matching, followed by
\* its inverse, restores the original bytes of the file, whether or not
\* they end with a newline.
C23_InverseRestoresBytes ==
    \A k \in DOMAIN patch_log :
        (/\ k > 1
         /\ Len(patch_log[k].hunks) = 1
         /\ patch_log[k].hunks[1].type = "UpdateFile"
         /\ patch_log[k - 1].hunks = <<Inverse(patch_log[k].hunks[1])>>
         /\ patch_log[k - 1].ok
         /\ patch_log[k].ok
         /\ NoFuzzy(patch_log[k - 1]))
        => patch_log[k].after = patch_log[k - 1].trail[1]

\* The files a hunk writes or removes.
Targets(hunk) ==
    IF hunk.type = "UpdateFile" /\ hunk.move_to # None
    THEN {hunk.path, hunk.move_to.v}
    ELSE {hunk.path}

C40_AssistantMessageNotEmpty ==
    \A p \in DOMAIN messages :
        messages[p].role = "assistant" => messages[p].content # <<>>

\* The step of ai_loop that appends an assistant message.
AssistantAppended ==
    /\ Len(messages') = Len(messages) + 1
    /\ messages'[Len(messages')].role = "assistant"

\* The assistant message just appended asks for tools.
AsksForTools ==
    /\ stop_reason' = STOP_REASON_TOOL_USE
    /\ ToolUsesOf(messages'[Len(messages')].content) # <<>>

\* C32: after appending the assistant message the loop dispatches the tools
\* and goes on to another LLM request exactly when stop_reason is tool_use
\* and the content has a ToolUse block; otherwise it returns success and no
\* tool is executed.
C32_DispatchIffToolUse ==
    [][/\ AssistantAppended /\ AsksForTools
          => /\ Len(messages') \in dispatched'
             /\ executors' # <<>>
       /\ AssistantAppended /\ ~AsksForTools
          => /\ Len(messages') \notin dispatched'
             /\ executors' = <<>>
             /\ pc' = "recv"
             /\ loop_result' = "ok"
       /\ pc = "join" /\ pc' # "join" => pc' = "request"]_vars

\* The part of C32 that the code does satisfy: the decision taken when the
\* assistant message is appended.
C32_DecisionOnly ==
    [][/\ AssistantAppended /\ AsksForTools
          => /\ Len(messages') \in dispatched'
             /\ executors' # <<>>
       /\ AssistantAppended /\ ~AsksForTools
          => /\ Len(messages') \notin dispatched'
             /\ executors' = <<>>
             /\ pc' = "recv"
             /\ loop_result' = "ok"]_vars

\* The tool uses of the turn are apply_patch followed by read_file.
PatchThenRead ==
    /\ pc = "join"
    /\ Len(tool_uses) = 2
    /\ tool_uses[1].name = "apply_patch"
    /\ tool_uses[2].name = "read_file"

\* C31: in a turn of apply_patch followed by read_file, apply_patch gets the
\* write lock first: read_file does not hold (and has not held) its read
\* guard before apply_patch has finished, and the two never run together.
C31_PatchBeforeRead ==
    PatchThenRead =>
        /\ executors[2].st # "spawned" => executors[1].st = "done"
        /\ ~(Running(1) /\ Running(2))

\* The part of C31 that the lock does give: the two never run together.
C31_NoOverlap ==
    PatchThenRead => ~(Running(1) /\ Running(2))

\* ------------------------------------------- properties: apply_patch updates
\* The hunk at which the logged call failed is an update of a file that is
\* there, one of whose chunks is not found.
ChunkNotLocated(e) ==
    /\ ~e.ok
    /\ e.hunks[e.failed_at].type = "UpdateFile"
    /\ e.trail[e.failed_at][e.hunks[e.failed_at].path] # None
    /\ UpdatedContent(e.trail[e.failed_at][e.hunks[e.failed_at].path],
                      e.hunks[e.failed_at].chunks) = None

\* C38: an update hunk one of whose chunks cannot be located leaves the
\* content of its file as it was before the hunk: none of its chunks is
\* applied.
C38_UpdateAllOrNothing ==
    \A n \in DOMAIN patch_log :
        ChunkNotLocated(patch_log[n]) =>
            \A p \in Paths :
                patch_log[n].after[p]
                    = patch_log[n].trail[patch_log[n].failed_at][p]

\* An update by two chunks failed, whose first chunk alone is found and
\* changes the file.
C38_Witness ==
    \E n \in DOMAIN patch_log :
        /\ ChunkNotLocated(patch_log[n])
        /\ \E h \in {patch_log[n].hunks[patch_log[n].failed_at]} :
           \E before \in {patch_log[n].trail[patch_log[n].failed_at][h.path]} :
             /\ Len(h.chunks) = 2
             /\ UpdatedContent(before, <<h.chunks[1]>>) \notin {None, before}

\* C36: after an update with a Move to directive has succeeded, the new
\* content is at the destination path, whatever the two paths are.
C36_MovedContentAtDestination ==
    \A n \in DOMAIN patch_log :
        \A j \in 1..(Len(patch_log[n].trail) - 1) :
            \E h \in {patch_log[n].hunks[j]} :
                (h.type = "UpdateFile" /\ h.move_to # None) =>
                    patch_log[n].trail[j + 1][h.move_to.v]
                        = UpdatedContent(patch_log[n].trail[j][h.path],
                                         h.chunks)

\* The lines got by replacing every range of the sorted replacements at
\* once in the original lines, from the line at index pos on.
RECURSIVE ReplacedAtOnce(_, _, _)
ReplacedAtOnce(lines, replacements, pos) ==
    IF replacements = <<>> THEN SubSeq(lines, pos + 1, Len(lines))
    ELSE SubSeq(lines, pos + 1, Head(replacements).start)
           \o Head(replacements).new_segment
           \o ReplacedAtOnce(lines, Tail(replacements),
                             Head(replacements).start
                               + Head(replacements).old_len)

\* No range of the sorted replacements reaches into the next one.
NoOverlap(replacements) ==
    \A k \in 1..(Len(replacements) - 1) :
        replacements[k].start + replacements[k].old_len
            <= replacements[k + 1].start

\* The replacements of the update hunk h of a file of content before.
ReplacementsOf(h, before) ==
    compute_replacements(WithoutEmptyLast(before.pieces), h.chunks)

\* C34: the replacements that compute_replacements records for an update
\* never overlap, and apply_replacements gives the lines that replacing
\* every recorded range at once in the original file gives.
C34_ReplacementsDisjoint ==
    \A n \in DOMAIN patch_log :
        \A j \in 1..(Len(patch_log[n].trail) - 1) :
            \E h \in {patch_log[n].hunks[j]} :
                h.type = "UpdateFile" =>
                    \E lines \in {WithoutEmptyLast(
                                    patch_log[n].trail[j][h.path].pieces)} :
                    \E reps \in {compute_replacements(lines, h.chunks)} :
                        /\ NoOverlap(reps.v)
                        /\ apply_replacements(lines, reps.v)
                             = ReplacedAtOnce(lines, reps.v, 0)

\* ------------------------------------------------ properties: parse_patch
\* Line i of the input is a chunk header.
IsChunkHeader(i) == starts_with(patch_input[i], AT_AT)

\* Line j is an End of File line inside the chunk whose header is line i:
\* only lines of the body of the chunk are between the two.
EndOfFileLineOf(i, j) ==
    /\ j > i
    /\ trim(patch_input[j]) = END_OF_FILE
    /\ \A m \in (i + 1)..(j - 1) :
         /\ ~starts_with(patch_input[m], AT_AT)
         /\ ~starts_with(patch_input[m], STARS)
         /\ trim(patch_input[m]) # END_OF_FILE

\* The number of chunk headers among the first i lines.
HeadersUpTo(i) == Cardinality({m \in 1..i : IsChunkHeader(m)})

\* The input is an update of one file.
OneUpdate ==
    /\ patch_input # NoInput
    /\ patch_pc = "apply"
    /\ Cardinality({i \in DOMAIN patch_input :
                      starts_with(patch_input[i], STARS)
                        /\ ~trim(patch_input[i]) \in {BEGIN_PATCH, END_PATCH,
                                                      END_OF_FILE}}) = 1
    /\ \E i \in DOMAIN patch_input :
          starts_with(patch_input[i], UPDATE_FILE)

\* C33: an End of File line inside a chunk of an update sets the
\* is_end_of_file flag of that chunk.
C33_EndOfFileSetsFlag ==
    OneUpdate =>
        \A i, j \in DOMAIN patch_input :
            (IsChunkHeader(i) /\ EndOfFileLineOf(i, j)) =>
                /\ Len(hunks[1].chunks) >= HeadersUpTo(i)
                /\ hunks[1].chunks[HeadersUpTo(i)].is_end_of_file

\* ------------------------------------------- properties: replies to cards
\* The card message c is in the chat and the thread it was created for is
\* registered.
CardOfLiveThread(c) ==
    \E k \in 1..Len(card_owner) :
        /\ CardMsgIds[k] = c
        /\ get_thread(threads, card_owner[k].thread_id) # NoThread

\* C37: a reply to the card message of a live thread is not answered with
\* the session-expired text, in whatever order the CardReady of the card
\* and the reply reach the front-end channel: it is submitted to the
\* thread as FollowUp.
C37_ReplyToLiveCardSubmitted ==
    [][(HandlesReply /\ CardOfLiveThread(Head(fe).card_msg_id)) =>
          /\ expired_replies' = expired_replies
          /\ \E t \in ThreadIds :
                \/ sqs' = [sqs EXCEPT
                             ![t] = Append(@, FollowUp(Head(fe).text))]
                \/ main_blocked' = [thread_id |-> t,
                                    sub |-> FollowUp(Head(fe).text)]]_vars

\* ------------------------------------------------ properties: ClaudeAgent
\* C39: the events of a UserMessage or FollowUp handled by the Claude
\* agent hold exactly one terminating event (StatusChange(Completed) or
\* Error), and it is the last event of the submission.
C39_OneTerminalEventLast ==
    (sub # None /\ IsMessage(sub)) =>
        /\ \A p \in 1..(Len(SubSeg) - 1) : ~IsTerminal(SubSeg[p])
        /\ (pc = "recv" /\ SubSeg # <<>>) => IsTerminal(SubSeg[Len(SubSeg)])

\* ------------------------------------------------ properties: card closing
\* Request i is the final full-card update of a closing.
IsFinalUpdate(i) ==
    api_sent[i].op = "update_card" /\ ~api_sent[i].streaming_mode

IsSettingsPatch(i) == api_sent[i].op = "update_card_settings"

=============================================================================
